---- MODULE Spec2Model ----
(***************************************************************************)
(* A model of the content-lifecycle engine of `res`: the identifier ledger *)
(* (src/src/content-id-allocator.ts), the channel metadata store, the      *)
(* eviction pass, the filesystem reconciliation pass, the fetch            *)
(* orchestrator and the background scheduler.                              *)
(*                                                                         *)
(* The module holds several specifications over one set of variables:      *)
(*   SpecLedger  ledger calls of several OS processes, one file operation  *)
(*               per step, guarded by the lock file                        *)
(*   Spec        the reservoir operations (fetch, sync, clean, retain,     *)
(*               release) run one after another by a single actor          *)
(*   SpecSteps   one fetch and one reconciliation pass of two processes,   *)
(*               one disk access per step, with a crash of the fetcher     *)
(*   SpecSched   the ticks of the background scheduler                     *)
(*   SpecStart   start and stop requests around the pid file               *)
(*   SpecSync    the reconciliation pass after fetches, files added or     *)
(*               deleted by hand and identifiers re-bound in the ledger    *)
(*   SpecRange   retain/release calls for documents and identifier ranges, *)
(*               each as a request and its return                          *)
(*   SpecLocks   every operation that takes a lock name, with fetches      *)
(*   SpecIngest  fetches into a directory that also changes by hand        *)
(*   SpecLedgerWait  SpecLedger with a fair wait for the lock file         *)
(*   SpecLoop    the scheduler process: start, ticks that run a fetch step *)
(*               by step, termination signals                              *)
(*   SpecDelete  channels deleted and created again, with fetches          *)
(*   SpecBudget  setMaxSizeMB calls between fetches                        *)
(*   SpecReject  calls that are rejected, on stored configurations         *)
(*   SpecCreate  channels created under names that share a slug            *)
(*   SpecRetain  a fetch step by step, with retain and release calls       *)
(*   SpecLedgerDeath  SpecLedger with a throwing action and a killed holder*)
(*   SpecTickFail  the scheduler process when a step of a tick fails       *)
(*   SpecSchedLive  SpecSched ticking forever, times relative to the tick  *)
(*   SpecFetchFail  SpecIngest with fetches whose fetcher rejects          *)
(*   SpecRestart  SpecSched with a restart between two ticks               *)
(***************************************************************************)
EXTENDS Integers, Sequences, FiniteSets, TLC

\* ------------------------------------------------------------------------
\* Bounds of the model
\* ------------------------------------------------------------------------
\* OS processes that call the ledger concurrently
NumProcs == 2
\* ledger calls issued in one behaviour of SpecLedger
MaxCalls == 3
\* largest identifier a caller passes to setMapping / removeMappingById
MaxBindId == 2

\* largest counter value the reservoir operations may reach
MaxCounter == 2
\* fetches in one behaviour (each fetch advances the clock by one)
MaxClock == 2
\* items one fetcher call returns
MaxItems == 1
\* largest numeric suffix createUniqueContentPath may reach
MaxSuffix == 1
\* largest configured size budget, in size units
MaxBudget == 2
\* the scheduler's clock stops here (ms)
MaxNowMs == 4000

Procs == 1..NumProcs

\* ------------------------------------------------------------------------
\* Names: channels, file locations, identifiers
\* ------------------------------------------------------------------------
Channels == {"c1", "c2"}
Bases == {"a", "content"}
Suffixes == 0..MaxSuffix
\* a location relative to the reservoir root: <<channel, base, n>> stands for
\* <channel>/<base>.md (n = 0) or <channel>/<base>-<n>.md (n > 0)
Paths == Channels \X Bases \X Suffixes
NoPath == <<"", "", 0>>
NoId == -1

\* the locations the ledger callers of SpecLedger name
LedgerLocs == {<<"c1", "a", 0>>, <<"c1", "a", 1>>}

VARIABLES
    counterFile,  \* .res-content-id.counter: the last identifier handed out
    mapFile,      \* .res-content-id.map.json: identifier -> location
    lockFile,     \* .res-content-id.lock exists
    lpc,          \* per process: where it is inside a ledger call
    lcall,        \* per process: the call it is executing
    ltmp,         \* per process: what it has read (map snapshot, counter)
    ncalls,       \* ledger calls issued so far
    allocLog,     \* history: identifiers handed out by nextId / assignIdToFile
    hwm,          \* history: largest identifier allocated or bound so far
    allocOnly,    \* history: only allocating calls were issued so far
    counter0,     \* history: the counter value of the initial state
    files,        \* the document files on disk: location -> content
    chanCfg,      \* per channel: channel.json
    metadata,     \* per channel: metadata.json, the list of item records
    maxSize,      \* .res-config.json maxSizeMB (0: not configured)
    clock,        \* the last timestamp read by new Date()
    lockedOverwrite, \* history: a fetch has overwritten a document whose lock
                  \* set differed from the channel's retainedLocks
    fpc,          \* SpecSteps: where the fetching process is inside fetchChannel
    fmem,         \* SpecSteps: what the fetching process holds in memory
    spc,          \* SpecSteps: where the reconciling process is
    smem,         \* SpecSteps: what the reconciling process holds in memory
    schedCfg,     \* per channel: refreshInterval and rateLimitInterval
    sched,        \* the scheduler's BackgroundFetcherState and the last tick's outcome
    attemptedAt,  \* history: per channel, when fetchChannel was last invoked by a tick
    lastTickMs,   \* Date.now() at the start of the last tick
    schedPc,      \* the scheduler loop: "off", "running" or "dead"
    startPc,      \* per process: where it is inside startBackgroundFetcher
    pidFile,      \* .res-fetcher.pid (NoPid: the file does not exist)
    signalled,    \* per process: a SIGTERM is pending
    refused,      \* history: per process, its last start request was refused
    stopPc,       \* where the stop command is inside stopBackgroundFetcher
    stopPid,      \* the pid the stop command has read
    statusFile,   \* .res-fetcher.status.json: the pid in its record (NoPid: no file)
    statusReply,  \* what the last status query reported
    lockCall,     \* SpecRange: the retain/release call being executed
    lockResult,   \* SpecRange: what the last retain/release call returned
    sizeResult,   \* how the last setMaxSizeMB call ended
    channelDirs   \* SpecCreate: the directories of .res/channels, each with the
                  \* id and name in its channel.json

ledgerFiles == <<counterFile, mapFile>>
lprocVars == <<lockFile, lpc, lcall, ltmp, ncalls, allocLog, hwm, allocOnly, counter0>>
resVars == <<files, chanCfg, metadata, maxSize, clock, lockedOverwrite>>

stepVars == <<fpc, fmem, spc, smem>>
schedVars == <<schedCfg, sched, attemptedAt, lastTickMs, schedPc>>
startVars == <<startPc, pidFile, signalled, refused, stopPc, stopPid, statusFile, statusReply>>
lockVars == <<lockCall, lockResult>>
sizeVars == <<sizeResult>>
dirVars == <<channelDirs>>

vars == <<ledgerFiles, lprocVars, resVars, stepVars, schedVars, startVars, lockVars, sizeVars, dirVars>>

\* what the ledger steps of SpecLedger leave alone
notLedger == <<resVars, stepVars, schedVars, startVars, lockVars, sizeVars, dirVars>>
\* what the reservoir operations of Spec leave alone
notRes == <<lprocVars, stepVars, schedVars, startVars, lockVars, sizeVars, dirVars>>
\* what the steps of SpecSteps leave alone
notSteps == <<lprocVars, schedVars, startVars, lockVars, sizeVars, dirVars>>
\* what a tick of SpecSched leaves alone
notSched == <<lprocVars, stepVars, startVars, lockVars, sizeVars, dirVars>>
\* what the steps of SpecStart leave alone
notStart == <<ledgerFiles, lprocVars, resVars, stepVars, schedVars, lockVars, sizeVars, dirVars>>
\* what the calls of SpecRange leave alone
notRange == <<lprocVars, stepVars, schedVars, startVars, sizeVars, dirVars>>

Max(a, b) == IF a >= b THEN a ELSE b

\* ------------------------------------------------------------------------
\* The identifier ledger: pure helpers
\* ------------------------------------------------------------------------
EmptyMap == [i \in {} |-> NoPath]

MapSet(m, id, p) == [i \in (DOMAIN m) \cup {id} |-> IF i = id THEN p ELSE m[i]]

MapDel(m, id) == [i \in (DOMAIN m) \ {id} |-> m[i]]

\* readCurrentValue: a missing, empty or negative counter reads as 0
ReadCurrentValue(c) == IF c < 0 THEN 0 ELSE c

\* findIdByFileInMap: the first entry bound to the location; integer keys of a
\* JS object are enumerated in ascending order
FindIdByFileInMap(m, p) ==
    IF \E i \in DOMAIN m : m[i] = p
    THEN CHOOSE i \in DOMAIN m : m[i] = p /\ \A j \in DOMAIN m : m[j] = p => i <= j
    ELSE NoId

BumpNoRaise(id, cur) == cur

\* bumpCounterIfNeeded: the counter value after binding id
BumpCounterIfNeeded(id, cur) == IF id > 0 /\ id > cur THEN id ELSE cur

\* ------------------------------------------------------------------------
\* The identifier ledger, one file operation per step (SpecLedger)
\* ------------------------------------------------------------------------
NoCall == [op |-> "none", id |-> NoId, loc |-> NoPath]
NoTmp == [map |-> EmptyMap, cur |-> 0, res |-> NoId]

LedgerCalls ==
    {[op |-> "next", id |-> NoId, loc |-> NoPath]}
    \cup {[op |-> "assign", id |-> NoId, loc |-> l] : l \in LedgerLocs}
    \cup {[op |-> "bind", id |-> i, loc |-> l] : i \in 0..MaxBindId, l \in LedgerLocs}
    \cup {[op |-> "unbind", id |-> i, loc |-> NoPath] : i \in 1..MaxBindId}

IsAllocCall(c) == c.op \in {"next", "assign"}

\* a caller enters nextId, assignIdToFile, setMapping or removeMappingById
LCall(p, c) ==
    /\ lpc[p] = "idle"
    /\ ncalls < MaxCalls
    /\ lcall' = [lcall EXCEPT ![p] = c]
    /\ ltmp' = [ltmp EXCEPT ![p] = NoTmp]
    /\ lpc' = [lpc EXCEPT ![p] = "acq"]
    /\ ncalls' = ncalls + 1
    /\ allocOnly' = (allocOnly /\ IsAllocCall(c))
    /\ UNCHANGED <<counterFile, mapFile, lockFile, allocLog, hwm, counter0>>
    /\ UNCHANGED notLedger

LAcquireNoExclusion(p) ==
    /\ lpc[p] = "acq"
    /\ lockFile' = TRUE
    /\ lpc' = [lpc EXCEPT ![p] = IF lcall[p].op = "next" THEN "rdctr" ELSE "rdmap"]
    /\ UNCHANGED <<counterFile, mapFile, lcall, ltmp, ncalls, allocLog, hwm,
                   allocOnly, counter0>>
    /\ UNCHANGED notLedger

\* acquireLock: openSync(lockPath, 'wx') succeeds only when the file is absent
LAcquire(p) ==
    /\ lpc[p] = "acq"
    /\ ~lockFile
    /\ lockFile' = TRUE
    /\ lpc' = [lpc EXCEPT ![p] = IF lcall[p].op = "next" THEN "rdctr" ELSE "rdmap"]
    /\ UNCHANGED <<counterFile, mapFile, lcall, ltmp, ncalls, allocLog, hwm,
                   allocOnly, counter0>>
    /\ UNCHANGED notLedger

\* (variant) once the deadline has passed the call goes on without the lock
LTimeoutProceeds(p) ==
    /\ lpc[p] = "acq"
    /\ lockFile
    /\ lpc' = [lpc EXCEPT ![p] = IF lcall[p].op = "next" THEN "rdctr" ELSE "rdmap"]
    /\ UNCHANGED <<counterFile, mapFile, lockFile, lcall, ltmp, ncalls, allocLog, hwm,
                   allocOnly, counter0>>
    /\ UNCHANGED notLedger

\* acquireLock: EEXIST and the deadline has passed: the call throws
LTimeout(p) ==
    /\ lpc[p] = "acq"
    /\ lockFile
    /\ lpc' = [lpc EXCEPT ![p] = "idle"]
    /\ lcall' = [lcall EXCEPT ![p] = NoCall]
    /\ ltmp' = [ltmp EXCEPT ![p] = NoTmp]
    /\ UNCHANGED <<counterFile, mapFile, lockFile, ncalls, allocLog, hwm,
                   allocOnly, counter0>>
    /\ UNCHANGED notLedger

\* (variant) assignIdToFile does not look the location up
LReadMapNoLookup(p) ==
    /\ lpc[p] = "rdmap"
    /\ LET c == lcall[p]
       IN  /\ ltmp' = [ltmp EXCEPT ![p].map = mapFile, ![p].res = NoId]
           /\ lpc' = [lpc EXCEPT ![p] =
                        CASE c.op = "assign" -> "rdctr"
                          [] c.op = "bind" -> "wrmap"
                          [] OTHER -> IF c.id \in DOMAIN mapFile THEN "wrmap" ELSE "rel"]
    /\ UNCHANGED <<counterFile, mapFile, lockFile, lcall, ncalls, allocLog, hwm,
                   allocOnly, counter0>>
    /\ UNCHANGED notLedger

\* readMapValue inside the guarded action, and the branch taken on it
LReadMap(p) ==
    /\ lpc[p] = "rdmap"
    /\ LET c == lcall[p]
           existing == FindIdByFileInMap(mapFile, c.loc)
       IN  /\ ltmp' = [ltmp EXCEPT ![p].map = mapFile,
                                   ![p].res = IF c.op = "assign" THEN existing ELSE NoId]
           /\ lpc' = [lpc EXCEPT ![p] =
                        CASE c.op = "assign" -> IF existing # NoId THEN "rel" ELSE "rdctr"
                          [] c.op = "bind" -> "wrmap"
                          [] OTHER -> IF c.id \in DOMAIN mapFile THEN "wrmap" ELSE "rel"]
    /\ UNCHANGED <<counterFile, mapFile, lockFile, lcall, ncalls, allocLog, hwm,
                   allocOnly, counter0>>
    /\ UNCHANGED notLedger

\* readCurrentValue inside nextId / assignIdToFile
LReadCounter(p) ==
    /\ lpc[p] = "rdctr"
    /\ ltmp' = [ltmp EXCEPT ![p].cur = ReadCurrentValue(counterFile)]
    /\ lpc' = [lpc EXCEPT ![p] = "wrctr"]
    /\ UNCHANGED <<counterFile, mapFile, lockFile, lcall, ncalls, allocLog, hwm,
                   allocOnly, counter0>>
    /\ UNCHANGED notLedger

\* writeFileSync(counterPath, next) of nextId / assignIdToFile
LWriteCounter(p) ==
    /\ lpc[p] = "wrctr"
    /\ counterFile' = ltmp[p].cur + 1
    /\ ltmp' = [ltmp EXCEPT ![p].res = ltmp[p].cur + 1]
    /\ lpc' = [lpc EXCEPT ![p] = IF lcall[p].op = "next" THEN "rel" ELSE "wrmap"]
    /\ UNCHANGED <<mapFile, lockFile, lcall, ncalls, allocLog, hwm, allocOnly,
                   counter0>>
    /\ UNCHANGED notLedger

\* writeMapValue: the snapshot read earlier, changed, replaces the file
LWriteMap(p) ==
    /\ lpc[p] = "wrmap"
    /\ LET c == lcall[p]
       IN  /\ mapFile' = CASE c.op = "assign" -> MapSet(ltmp[p].map, ltmp[p].res, c.loc)
                           [] c.op = "bind" -> MapSet(ltmp[p].map, c.id, c.loc)
                           [] OTHER -> MapDel(ltmp[p].map, c.id)
           /\ lpc' = [lpc EXCEPT ![p] = IF c.op = "bind" THEN "bump" ELSE "rel"]
    /\ UNCHANGED <<counterFile, lockFile, lcall, ltmp, ncalls, allocLog, hwm,
                   allocOnly, counter0>>
    /\ UNCHANGED notLedger

\* bumpCounterIfNeeded at the end of setMapping
LBump(p) ==
    /\ lpc[p] = "bump"
    /\ counterFile' = BumpCounterIfNeeded(lcall[p].id, ReadCurrentValue(counterFile))
    /\ lpc' = [lpc EXCEPT ![p] = "rel"]
    /\ UNCHANGED <<mapFile, lockFile, lcall, ltmp, ncalls, allocLog, hwm, allocOnly,
                   counter0>>
    /\ UNCHANGED notLedger

\* withLock's finally: the lock file is removed and the call returns
LRelease(p) ==
    /\ lpc[p] = "rel"
    /\ lockFile' = FALSE
    /\ lpc' = [lpc EXCEPT ![p] = "idle"]
    /\ lcall' = [lcall EXCEPT ![p] = NoCall]
    /\ ltmp' = [ltmp EXCEPT ![p] = NoTmp]
    /\ LET c == lcall[p]
           r == ltmp[p].res
           fresh == IsAllocCall(c) /\ (c.op = "assign" => r \notin DOMAIN ltmp[p].map)
       IN  /\ allocLog' = IF fresh
                          THEN Append(allocLog, [id |-> r, hw |-> hwm])
                          ELSE allocLog
           /\ hwm' = CASE fresh -> Max(hwm, r)
                       [] c.op = "bind" -> Max(hwm, c.id)
                       [] OTHER -> hwm
           /\ allocOnly' = (allocOnly /\ (IsAllocCall(c) => fresh))
    /\ UNCHANGED <<counterFile, mapFile, ncalls, counter0>>
    /\ UNCHANGED notLedger

\* ------------------------------------------------------------------------
\* The reservoir on disk
\* ------------------------------------------------------------------------
GLOBAL_LOCK_NAME == "[global]"
Locks == {GLOBAL_LOCK_NAME, "w"}
\* the lock-name argument as a caller passes it; NoName: the argument is omitted
NoName == "<undefined>"
RawLockNames == {NoName, "w", " w ", "", "a,b"}
\* the outcome of a call that throws
Rejected == "<throws>"

\* String.prototype.trim on the names above
Trim(s) == IF s = " w " THEN "w" ELSE s

\* normalized.includes(',')
IncludesComma(s) == s = "a,b"

\* (variant) the name is trimmed and defaulted but not looked into
LockNameUnchecked(lockName) ==
    IF lockName = NoName THEN GLOBAL_LOCK_NAME
    ELSE IF Trim(lockName) = "" THEN GLOBAL_LOCK_NAME ELSE Trim(lockName)

\* InputNormalizer.lockName: the normalized name, or Rejected
LockName(lockName) ==
    IF lockName = NoName THEN GLOBAL_LOCK_NAME
    ELSE IF IncludesComma(Trim(lockName)) THEN Rejected
    ELSE IF Trim(lockName) = "" THEN GLOBAL_LOCK_NAME ELSE Trim(lockName)

\* the array is returned as it is given
NormalizeLocksKeepAll(lockNames, k, acc) == lockNames

\* InputNormalizer.locks (validateNames off): the trimmed, non-empty names in
\* the order of their first occurrence; acc is the Set built so far
RECURSIVE NormalizeLocks(_, _, _)
NormalizeLocks(lockNames, k, acc) ==
    IF k > Len(lockNames) THEN acc
    ELSE LET n == Trim(lockNames[k])
         IN  IF n = "" \/ \E j \in 1..Len(acc) : acc[j] = n
             THEN NormalizeLocks(lockNames, k + 1, acc)
             ELSE NormalizeLocks(lockNames, k + 1, Append(acc, n))

\* InputNormalizer.locks with validateNames: Rejected when a name holds a comma
NormalizeLocksValidated(lockNames) ==
    IF \E k \in 1..Len(lockNames) : IncludesComma(Trim(lockNames[k]))
    THEN Rejected
    ELSE NormalizeLocks(lockNames, 1, <<>>)

\* item.locks.filter((name) => name !== lockName)
WithoutLock(locks, lockName) == SelectSeq(locks, LAMBDA n : n # lockName)
\* values of the configured id field that a document's front matter may carry
FieldValues == {"abc"}
Bodies == {"v1", "v2"}
\* the file names a fetcher suggests ("" : none suggested)
FetchedNames == {"", "A"}
\* listChannels: readdirSync order of the channel directories
ChannelOrder == <<"c1", "c2">>

NoFile == [idv |-> "-", body |-> "-"]
FileContents == [idv : FieldValues \cup {""}, body : Bodies]
FetchedItems == [name : FetchedNames, idv : FieldValues \cup {""}, body : Bodies]
FetchedBatches == UNION {[1..n -> FetchedItems] : n \in 0..MaxItems}

\* what the fetchers of SpecSync and SpecLocks return: nothing, or one item
OneItemBatches == {<<>>} \cup {<<[name |-> n, idv |-> "", body |-> "v1"]>> : n \in FetchedNames}

ChannelConfigs ==
    [dup : {"overwrite", "keep-both"}, idField : BOOLEAN, retainedLocks : {<<>>}]

\* statSync(file).size, in size units
FileSize(c) == IF c.body = "v1" THEN 1 ELSE 2

Exists(fs, p) == p \in Paths /\ fs[p] # NoFile

ChannelOf(p) == p[1]

\* contentFileSlug / channelDirectorySlug: lower-case, runs of other
\* characters become "-", an empty slug becomes the default
Slug(stem) ==
    CASE stem = "A" -> "a"
      [] stem = "" -> "content"
      [] OTHER -> stem

\* contentFileStemForFetchedItem
ContentFileStemForFetchedItem(item) == IF item.name # "" THEN item.name ELSE "content"

\* parseInlineFrontmatter(content)[idField], trimmed; "" when absent
FieldValue(c, idField) == IF idField THEN c.idv ELSE ""

\* resolveDedupeKeyForFetchedItem; a key is <<text, n>>, the text followed by
\* "-n" when n > 0
ResolveDedupeKeyForFetchedItem(item, idField) ==
    IF FieldValue(item, idField) # ""
    THEN <<FieldValue(item, idField), 0>>
    ELSE <<ContentFileStemForFetchedItem(item), 0>>

\* the key buildExistingContentByDedupeKey gives a stored file
DedupeKeyOfStoredFile(p, c, idField) ==
    IF FieldValue(c, idField) # ""
    THEN <<FieldValue(c, idField), 0>>
    ELSE IF p[2] = "content" /\ p[3] = 0 THEN <<ChannelOf(p), 0>> ELSE <<p[2], p[3]>>

RECURSIVE FreeSuffixFrom(_, _, _, _)
FreeSuffixFrom(fs, ch, base, n) ==
    IF n > MaxSuffix THEN n
    ELSE IF fs[<<ch, base, n>>] = NoFile THEN n
    ELSE FreeSuffixFrom(fs, ch, base, n + 1)

\* (variant) the candidate <base>.md is taken without looking at the disk
CreateUniqueContentPathNoProbe(fs, ch, stem) == <<ch, Slug(stem), 0>>

\* createUniqueContentPath: <base>.md, else <base>-1.md, <base>-2.md, ...
CreateUniqueContentPath(fs, ch, stem) ==
    <<ch, Slug(stem), FreeSuffixFrom(fs, ch, Slug(stem), 0)>>

\* ------------------------------------------------------------------------
\* The ledger calls as the single actor sees them (the lock is free)
\* ------------------------------------------------------------------------
\* assignIdToFile: [ctr, map, id]
AssignIdToFile(ctr, map, p) ==
    LET existing == FindIdByFileInMap(map, p)
        next == ReadCurrentValue(ctr) + 1
    IN  IF existing # NoId
        THEN [ctr |-> ctr, map |-> map, id |-> existing]
        ELSE [ctr |-> next, map |-> MapSet(map, next, p), id |-> next]

\* setMapping: [ctr, map]
SetMapping(ctr, map, id, p) ==
    [ctr |-> BumpCounterIfNeeded(id, ReadCurrentValue(ctr)), map |-> MapSet(map, id, p)]

\* ------------------------------------------------------------------------
\* Channel metadata
\* ------------------------------------------------------------------------
\* the location a record resolves to: the ledger's binding, else its filePath
ResolvePath(item, map) == IF item.id \in DOMAIN map THEN map[item.id] ELSE item.filePath

LastIndexOf(items, id) ==
    CHOOSE i \in 1..Len(items) :
        items[i].id = id /\ \A j \in 1..Len(items) : items[j].id = id => j <= i

\* new Map(items.map((e) => [e.id, e])): identifier -> index of its last record
MetadataById(items) ==
    [id \in {items[i].id : i \in 1..Len(items)} |-> LastIndexOf(items, id)]

Indices(items) == [i \in 1..Len(items) |-> i]

\* readContentFilesById: the records, one per identifier in order of first
\* occurrence, whose resolved file exists; each as <<id, location>>
ReadContentFilesById(items, map, fs) ==
    LET byId == MetadataById(items)
        first == SelectSeq(Indices(items), LAMBDA i :
                     /\ \A j \in 1..(i - 1) : items[j].id # items[i].id
                     /\ Exists(fs, ResolvePath(items[byId[items[i].id]], map)))
    IN  [k \in 1..Len(first) |->
            [id |-> items[first[k]].id,
             path |-> ResolvePath(items[byId[items[first[k]].id]], map)]]

\* removeFromMetadata
RemoveFromMetadata(items, id) == SelectSeq(items, LAMBDA it : it.id # id)

\* ------------------------------------------------------------------------
\* FilesystemSynchronizer.syncContentTracking
\* ------------------------------------------------------------------------
StaleIds(map, fs) == {id \in DOMAIN map : ~Exists(fs, map[id])}

RemoveStale(map, fs) == [id \in (DOMAIN map) \ StaleIds(map, fs) |-> map[id]]

\* (variant) a pass drops at most the first record whose file is gone
SyncItemsDropFirst(items, map, fs) ==
    LET gone == {i \in 1..Len(items) : ~Exists(fs, ResolvePath(items[i], map))}
        first == IF gone = {} THEN 0 ELSE CHOOSE i \in gone : \A j \in gone : i <= j
        kept == SelectSeq([i \in 1..Len(items) |-> [it |-> items[i], i |-> i]],
                          LAMBDA e : e.i # first)
    IN  [i \in 1..Len(kept) |->
            [kept[i].it EXCEPT !.filePath = ResolvePath(kept[i].it, map)]]

\* (variant) the records are filtered but their filePath is left as it is
SyncItemsNoRepair(items, map, fs) ==
    SelectSeq(items, LAMBDA it : Exists(fs, ResolvePath(it, map)))

\* one channel's pass: drop the records whose resolved file is gone, repair
\* the filePath of the others
SyncItems(items, map, fs) ==
    LET kept == SelectSeq(items, LAMBDA it : Exists(fs, ResolvePath(it, map)))
    IN  [i \in 1..Len(kept) |-> [kept[i] EXCEPT !.filePath = ResolvePath(kept[i], map)]]

\* metadataChanged at line 84: a record was dropped or a filePath repaired, so
\* the pass calls saveMetadata for the channel (map: the ledger after line 32)
MetadataChanged(items, map, fs) ==
    \E i \in 1..Len(items) :
        \/ ~Exists(fs, ResolvePath(items[i], map))
        \/ items[i].filePath # ResolvePath(items[i], map)

\* the channels whose metadata.json a pass over this disk writes
SyncWrites(map, meta, fs) ==
    {ch \in Channels : MetadataChanged(meta[ch], RemoveStale(map, fs), fs)}

\* the whole pass: [map, meta]
SyncContentTracking(map, meta, fs) ==
    LET map2 == RemoveStale(map, fs)
    IN  [map |-> map2, meta |-> [ch \in Channels |-> SyncItems(meta[ch], map2, fs)]]

\* ------------------------------------------------------------------------
\* FetchOrchestrator.fetchChannel
\* ------------------------------------------------------------------------
\* buildExistingContentByDedupeKey: key -> [path, cid]; a later file with the
\* same key replaces an earlier one
BuildExistingContentByDedupeKey(items, map, fs, idField) ==
    LET parsed == ReadContentFilesById(items, map, fs)
        keyAt(k) == DedupeKeyOfStoredFile(parsed[k].path, fs[parsed[k].path], idField)
        keys == {keyAt(k) : k \in 1..Len(parsed)}
        lastWith(key) == CHOOSE k \in 1..Len(parsed) :
                             keyAt(k) = key /\ \A j \in 1..Len(parsed) : keyAt(j) = key => j <= k
    IN  [key \in keys |->
            [path |-> parsed[lastWith(key)].path,
             cid |-> FindIdByFileInMap(map, parsed[lastWith(key)].path)]]

\* lines 69-71, 95 and 97: the dedupe key of a fetched item, the branch taken
\* and the file it will be written to
PlanItem(existing, fs, ch, cfg, item) ==
    LET key == ResolveDedupeKeyForFetchedItem(item, cfg.idField)
        shouldOverwrite == cfg.dup = "overwrite" /\ key \in DOMAIN existing
    IN  [key |-> key,
         overwrite |-> shouldOverwrite,
         path |-> IF shouldOverwrite THEN existing[key].path
                  ELSE CreateUniqueContentPath(fs, ch, ContentFileStemForFetchedItem(item))]

\* (variant) identifiers are serial numbers within one channel
IdForItemPerChannel(existing, ctr, map, plan) ==
    IF plan.overwrite /\ existing[plan.key].cid # NoId
    THEN [ctr |-> ctr, map |-> map, id |-> existing[plan.key].cid]
    ELSE LET n == Cardinality({i \in DOMAIN map : ChannelOf(map[i]) = ChannelOf(plan.path)}) + 1
         IN  [ctr |-> ctr, map |-> MapSet(map, n, plan.path), id |-> n]

\* lines 78 and 98: the identifier of the item: [ctr, map, id]
IdForItem(existing, ctr, map, plan) ==
    IF plan.overwrite /\ existing[plan.key].cid # NoId
    THEN [ctr |-> ctr, map |-> map, id |-> existing[plan.key].cid]
    ELSE AssignIdToFile(ctr, map, plan.path)

\* (variant) a new record starts without locks
RecordItemUnlocked(items, byId, cfg, plan, id, now) ==
    LET known == plan.overwrite /\ id \in DOMAIN byId
        items2 == IF known
                  THEN [items EXCEPT ![byId[id]].fetchedAt = now,
                                     ![byId[id]].filePath = plan.path]
                  ELSE Append(items, [id |-> id, locks |-> <<>>,
                                      fetchedAt |-> now, filePath |-> plan.path])
    IN  [items |-> items2,
         byId |-> IF known THEN byId ELSE MapSet(byId, id, Len(items2))]

\* (variant) every stored item gets the channel's retainedLocks
RecordItemResetLocks(items, byId, cfg, plan, id, now) ==
    LET rec == [id |-> id, locks |-> cfg.retainedLocks, fetchedAt |-> now, filePath |-> plan.path]
        known == plan.overwrite /\ id \in DOMAIN byId
        items2 == IF known THEN [items EXCEPT ![byId[id]] = rec] ELSE Append(items, rec)
    IN  [items |-> items2,
         byId |-> IF known THEN byId ELSE MapSet(byId, id, Len(items2))]

\* lines 79-115: the item's record in the in-memory metadata: an overwritten
\* document that has a record keeps it, with a new fetchedAt and filePath;
\* every other item gets a new record with the channel's retainedLocks
RecordItem(items, byId, cfg, plan, id, now) ==
    LET known == plan.overwrite /\ id \in DOMAIN byId
        items2 == IF known
                  THEN [items EXCEPT ![byId[id]].fetchedAt = now,
                                     ![byId[id]].filePath = plan.path]
                  ELSE Append(items, [id |-> id, locks |-> cfg.retainedLocks,
                                      fetchedAt |-> now, filePath |-> plan.path])
    IN  [items |-> items2,
         byId |-> IF known THEN byId ELSE MapSet(byId, id, Len(items2))]

\* the body of the loop over the fetched items (lines 68-143): st is what the
\* loop carries from one item to the next, together with the disk
StoreItem(st, ch, cfg, item, now) ==
    LET plan == PlanItem(st.existing, st.files, ch, cfg, item)
        a == IdForItem(st.existing, st.ctr, st.map, plan)
        r == RecordItem(st.items, st.byId, cfg, plan, a.id, now)
        b == SetMapping(a.ctr, a.map, a.id, plan.path)
    IN  IF plan.path[3] > MaxSuffix \/ b.ctr > MaxCounter
        THEN [st EXCEPT !.ok = FALSE]
        ELSE [ok |-> st.ok,
              files |-> [st.files EXCEPT ![plan.path] = [idv |-> item.idv, body |-> item.body]],
              ctr |-> b.ctr,
              map |-> b.map,
              items |-> r.items,
              byId |-> r.byId,
              existing |-> MapSet(st.existing, plan.key, [path |-> plan.path, cid |-> a.id]),
              persisted |-> Append(st.persisted, a.id)]

RECURSIVE StoreItems(_, _, _, _, _, _)
StoreItems(st, ch, cfg, fetched, k, now) ==
    IF k > Len(fetched) \/ ~st.ok THEN st
    ELSE StoreItems(StoreItem(st, ch, cfg, fetched[k], now), ch, cfg, fetched, k + 1, now)

\* what fetchChannel holds after loadMetadata and buildExistingContentByDedupeKey
LoadForFetch(items, ctr, map, fs, cfg) ==
    [ok |-> TRUE, files |-> fs, ctr |-> ctr, map |-> map, items |-> items,
     byId |-> MetadataById(items),
     existing |-> BuildExistingContentByDedupeKey(items, map, fs, cfg.idField),
     persisted |-> <<>>]

\* fetchChannel(ch) when the fetcher returns the batch `fetched`
FetchChannel(ch, fetched) ==
    LET synced == SyncContentTracking(mapFile, metadata, files)
        now == clock + 1
        st0 == LoadForFetch(synced.meta[ch], counterFile, synced.map, files, chanCfg[ch])
        st == StoreItems(st0, ch, chanCfg[ch], fetched, 1, now)
    IN  /\ clock < MaxClock
        /\ st.ok
        /\ files' = st.files
        /\ counterFile' = st.ctr
        /\ mapFile' = st.map
        /\ metadata' = IF Len(st.persisted) > 0
                       THEN [synced.meta EXCEPT ![ch] = st.items]
                       ELSE synced.meta
        /\ clock' = IF Len(fetched) > 0 THEN now ELSE clock
        /\ lockedOverwrite' =
              (lockedOverwrite \/ \E k \in 1..Len(st.persisted) :
                  /\ st.persisted[k] \in DOMAIN st0.byId
                  /\ st0.items[st0.byId[st.persisted[k]]].locks # chanCfg[ch].retainedLocks)
        /\ UNCHANGED <<chanCfg, maxSize>>
        /\ UNCHANGED notRes

\* Reservoir.syncContentTracking()
Sync ==
    LET synced == SyncContentTracking(mapFile, metadata, files)
    IN  /\ mapFile' = synced.map
        /\ metadata' = synced.meta
        /\ UNCHANGED <<counterFile, files, chanCfg, maxSize, clock, lockedOverwrite>>
        /\ UNCHANGED notRes

\* ------------------------------------------------------------------------
\* EvictionController.clean
\* ------------------------------------------------------------------------
\* getDirSize over the reservoir directory
CurrentSize(fs) ==
    LET RECURSIVE Sum(_)
        Sum(ps) == IF ps = {} THEN 0
                   ELSE LET p == CHOOSE q \in ps : TRUE
                        IN  (IF fs[p] = NoFile THEN 0 ELSE FileSize(fs[p])) + Sum(ps \ {p})
    IN  Sum(Paths)

\* (variant) the candidates chosen without looking at the lock sets
ChannelCandidatesAnyLocks(ch, items, map, fs) ==
    LET parsed == ReadContentFilesById(items, map, fs)
        pathOf(id) == (CHOOSE e \in {parsed[k] : k \in 1..Len(parsed)} : e.id = id).path
        has(id) == \E k \in 1..Len(parsed) : parsed[k].id = id
        sel == SelectSeq(items, LAMBDA it : has(it.id))
    IN  [k \in 1..Len(sel) |->
            [id |-> sel[k].id, ch |-> ch, fetchedAt |-> sel[k].fetchedAt,
             path |-> pathOf(sel[k].id)]]

\* the candidates of one channel, in metadata order (lines 34-49)
ChannelCandidates(ch, items, map, fs) ==
    LET parsed == ReadContentFilesById(items, map, fs)
        pathOf(id) == (CHOOSE e \in {parsed[k] : k \in 1..Len(parsed)} : e.id = id).path
        has(id) == \E k \in 1..Len(parsed) : parsed[k].id = id
        sel == SelectSeq(items, LAMBDA it : has(it.id) /\ Len(it.locks) = 0)
    IN  [k \in 1..Len(sel) |->
            [id |-> sel[k].id, ch |-> ch, fetchedAt |-> sel[k].fetchedAt,
             path |-> pathOf(sel[k].id)]]

RECURSIVE AllCandidates(_, _, _, _)
AllCandidates(k, meta, map, fs) ==
    IF k > Len(ChannelOrder) THEN <<>>
    ELSE ChannelCandidates(ChannelOrder[k], meta[ChannelOrder[k]], map, fs)
         \o AllCandidates(k + 1, meta, map, fs)

\* (variant) the candidates stay in the order they were collected in
SortByFetchedAtNone(cands) == cands

\* candidates.sort by fetchedAt: a stable sort, oldest first
RECURSIVE SortByFetchedAt(_)
SortByFetchedAt(cands) ==
    IF Len(cands) = 0 THEN <<>>
    ELSE LET m == CHOOSE i \in 1..Len(cands) :
                      \A j \in 1..Len(cands) :
                          \/ cands[i].fetchedAt < cands[j].fetchedAt
                          \/ (cands[i].fetchedAt = cands[j].fetchedAt /\ i <= j)
             rest == SelectSeq([i \in 1..Len(cands) |-> [c |-> cands[i], i |-> i]],
                               LAMBDA e : e.i # m)
         IN  <<cands[m]>> \o SortByFetchedAt([i \in 1..Len(rest) |-> rest[i].c])

\* (variant) the loop without its break: every candidate is deleted
RECURSIVE EvictLoopAll(_, _, _, _)
EvictLoopAll(ev, cands, k, maxBytes) ==
    IF k > Len(cands) THEN ev
    ELSE LET c == cands[k]
         IN  IF Exists(ev.files, c.path)
             THEN EvictLoopAll([files |-> [ev.files EXCEPT ![c.path] = NoFile],
                                meta |-> [ev.meta EXCEPT ![c.ch] = RemoveFromMetadata(ev.meta[c.ch], c.id)],
                                total |-> ev.total - FileSize(ev.files[c.path]),
                                n |-> ev.n + 1],
                               cands, k + 1, maxBytes)
             ELSE EvictLoopAll(ev, cands, k + 1, maxBytes)

\* the deletion loop (lines 53-61): ev is [files, meta, total, n]
RECURSIVE EvictLoop(_, _, _, _)
EvictLoop(ev, cands, k, maxBytes) ==
    IF k > Len(cands) \/ ev.total <= maxBytes THEN ev
    ELSE LET c == cands[k]
         IN  IF Exists(ev.files, c.path)
             THEN EvictLoop([files |-> [ev.files EXCEPT ![c.path] = NoFile],
                             meta |-> [ev.meta EXCEPT ![c.ch] = RemoveFromMetadata(ev.meta[c.ch], c.id)],
                             total |-> ev.total - FileSize(ev.files[c.path]),
                             n |-> ev.n + 1],
                            cands, k + 1, maxBytes)
             ELSE EvictLoop(ev, cands, k + 1, maxBytes)

\* clean(): [files, meta, total, n]
CleanResult(fs, meta, map, maxBytes) ==
    LET ev0 == [files |-> fs, meta |-> meta, total |-> CurrentSize(fs), n |-> 0]
    IN  IF maxBytes = 0 \/ CurrentSize(fs) <= maxBytes THEN ev0
        ELSE EvictLoop(ev0, SortByFetchedAt(AllCandidates(1, meta, map, fs)), 1, maxBytes)

Clean ==
    LET ev == CleanResult(files, metadata, mapFile, maxSize)
    IN  /\ files' = ev.files
        /\ metadata' = ev.meta
        /\ UNCHANGED <<counterFile, mapFile, chanCfg, maxSize, clock, lockedOverwrite>>
        /\ UNCHANGED notRes

\* ------------------------------------------------------------------------
\* LockController: retainContent / releaseContent
\* ------------------------------------------------------------------------
\* findItem: the first channel holding a record of the identifier
FindItemChannel(meta, id) ==
    LET hits == SelectSeq(ChannelOrder, LAMBDA ch : \E i \in 1..Len(meta[ch]) : meta[ch][i].id = id)
    IN  IF Len(hits) = 0 THEN "" ELSE hits[1]

FirstIndexOf(items, id) ==
    CHOOSE i \in 1..Len(items) :
        items[i].id = id /\ \A j \in 1..Len(items) : items[j].id = id => i <= j

\* updateContentLock
UpdateContentLock(meta, id, lockName, retain) ==
    LET ch == FindItemChannel(meta, id)
        i == FirstIndexOf(meta[ch], id)
    IN  [meta EXCEPT ![ch][i].locks =
            IF retain THEN NormalizeLocks(Append(@, lockName), 1, <<>>)
            ELSE WithoutLock(@, lockName)]

RetainContent(id, lockName) ==
    /\ LockName(lockName) # Rejected
    /\ FindItemChannel(metadata, id) # ""
    /\ metadata' = UpdateContentLock(metadata, id, LockName(lockName), TRUE)
    /\ UNCHANGED <<counterFile, mapFile, files, chanCfg, maxSize, clock, lockedOverwrite>>
    /\ UNCHANGED notRes

ReleaseContent(id, lockName) ==
    /\ LockName(lockName) # Rejected
    /\ FindItemChannel(metadata, id) # ""
    /\ metadata' = UpdateContentLock(metadata, id, LockName(lockName), FALSE)
    /\ UNCHANGED <<counterFile, mapFile, files, chanCfg, maxSize, clock, lockedOverwrite>>
    /\ UNCHANGED notRes

\* ------------------------------------------------------------------------
\* LockController: retainContentRange / releaseContentRange
\* ------------------------------------------------------------------------
\* no retain/release call is under way
NoLockCall == [op |-> "none"]
\* what a call returns: a count, or the message of the Error it throws
Returned(n) == [ok |-> TRUE, count |-> n, error |-> ""]
Thrown(message) == [ok |-> FALSE, count |-> 0, error |-> message]
NoResult == Thrown("")

LocksIdle ==
    /\ lockCall = NoLockCall
    /\ lockResult = NoResult

\* no setMaxSizeMB call has been made
SizeIdle == sizeResult = "none"

\* .res/channels is empty
DirsIdle == channelDirs = {}

\* the fromId / toId / channelId options as a caller passes them
NoBound == "<no bound>"
NoChannel == "<no channel>"
BoundArgs == {NoBound, "01", "x"} \cup {ToString(n) : n \in 1..MaxCounter}
ChannelArgs == {NoChannel} \cup Channels

\* isNaN(Number(text)) for the boundary texts above
IsNaN(text) == text # "01" /\ \A n \in 0..(MaxCounter + 1) : ToString(n) # text

\* Number(text) where it is a number
ToNumber(text) ==
    IF text = "01" THEN 1 ELSE CHOOSE n \in 0..(MaxCounter + 1) : ToString(n) = text

\* lines 93-95: the channels the call looks at
RangeChannels(c) == IF c.ch # NoChannel THEN <<c.ch>> ELSE ChannelOrder

\* lines 100-102: the boundaries are numbers and do not cross
RangeBoundsValid(c) ==
    /\ c.from # NoBound => ~IsNaN(c.from)
    /\ c.to # NoBound => ~IsNaN(c.to)
    /\ (c.from # NoBound /\ c.to # NoBound) => ~(ToNumber(c.from) > ToNumber(c.to))

\* (variant) the upper bound is taken as exclusive
InRangeExclusive(idNum, c) ==
    /\ c.from = NoBound \/ idNum >= ToNumber(c.from)
    /\ c.to = NoBound \/ idNum < ToNumber(c.to)

\* line 122: itemIdNum >= fromIdNum && itemIdNum <= toIdNum
InRange(idNum, c) ==
    /\ c.from = NoBound \/ idNum >= ToNumber(c.from)
    /\ c.to = NoBound \/ idNum <= ToNumber(c.to)

\* lines 104-105, 119-120 and 133-134: a named boundary is the identifier of
\* a record of one of the channels looked at
BoundFound(meta, c, bound) ==
    \/ bound = NoBound
    \/ \E k \in 1..Len(RangeChannels(c)) :
          \E i \in 1..Len(meta[RangeChannels(c)[k]]) :
              ToString(meta[RangeChannels(c)[k]][i].id) = bound

\* lines 109-131: the metadata of the channels looked at as the loop leaves
\* it in memory
RangeApplied(meta, c) ==
    LET chs == {RangeChannels(c)[k] : k \in 1..Len(RangeChannels(c))}
    IN  [ch \in Channels |->
            IF ch \notin chs THEN meta[ch]
            ELSE [i \in 1..Len(meta[ch]) |->
                    IF InRange(meta[ch][i].id, c)
                    THEN [meta[ch][i] EXCEPT !.locks =
                            IF c.retain
                            THEN NormalizeLocks(Append(@, LockName(c.name)), 1, <<>>)
                            ELSE WithoutLock(@, LockName(c.name))]
                    ELSE meta[ch][i]]]

\* count at line 128
RangeCount(meta, c) ==
    LET RECURSIVE CountFrom(_)
        CountFrom(k) ==
            IF k > Len(RangeChannels(c)) THEN 0
            ELSE Cardinality({i \in 1..Len(meta[RangeChannels(c)[k]]) :
                                 InRange(meta[RangeChannels(c)[k]][i].id, c)})
                 + CountFrom(k + 1)
    IN  CountFrom(1)

\* the call gets past its checks before the loop (lines 92, 100-102)
RangeAccepted(c) == LockName(c.name) # Rejected /\ RangeBoundsValid(c)

\* (variant) the metadata is saved before the boundaries are looked for
WrittenByRangeEager(meta, c) ==
    IF RangeAccepted(c) THEN RangeApplied(meta, c) ELSE meta

\* what is in the metadata files when the call ends: the loop's result is
\* saved (lines 136-138) unless the call has thrown before
WrittenByRange(meta, c) ==
    IF RangeAccepted(c) /\ BoundFound(meta, c, c.from) /\ BoundFound(meta, c, c.to)
    THEN RangeApplied(meta, c)
    ELSE meta

\* updateContentLockRange: the count it returns or the Error it throws
ReturnedByRange(meta, c) ==
    IF LockName(c.name) = Rejected THEN Thrown("Invalid lock name")
    ELSE IF c.from # NoBound /\ IsNaN(c.from) THEN Thrown("Invalid start ID")
    ELSE IF c.to # NoBound /\ IsNaN(c.to) THEN Thrown("Invalid end ID")
    ELSE IF ~RangeBoundsValid(c) THEN Thrown("Invalid range")
    ELSE IF ~BoundFound(meta, c, c.from) THEN Thrown("Start ID not found")
    ELSE IF ~BoundFound(meta, c, c.to) THEN Thrown("End ID not found")
    ELSE Returned(RangeCount(meta, c))

\* retainContent / releaseContent: what is in the metadata files when the
\* call ends
WrittenByContentLock(meta, c) ==
    IF LockName(c.name) # Rejected /\ FindItemChannel(meta, c.id) # ""
    THEN UpdateContentLock(meta, c.id, LockName(c.name), c.retain)
    ELSE meta

ReturnedByContentLock(meta, c) ==
    IF LockName(c.name) = Rejected THEN Thrown("Invalid lock name")
    ELSE IF FindItemChannel(meta, c.id) = "" THEN Thrown("Content not found")
    ELSE Returned(0)

\* the lock names the callers of SpecRange pass
CallLockNames == {NoName, " w ", "a,b"}

RangeCalls ==
    [op : {"range"}, retain : BOOLEAN, from : BoundArgs, to : BoundArgs,
     ch : ChannelArgs, name : CallLockNames]

ContentLockCalls ==
    [op : {"content"}, retain : BOOLEAN, id : 1..MaxCounter, name : CallLockNames]

\* a caller invokes retain/release for a document or a range
LockRequest(c) ==
    /\ lockCall = NoLockCall
    /\ lockCall' = c
    /\ UNCHANGED lockResult
    /\ UNCHANGED <<ledgerFiles, resVars>>
    /\ UNCHANGED notRange

\* retainContentRange / releaseContentRange run
RangeReturn ==
    /\ lockCall.op = "range"
    /\ metadata' = WrittenByRange(metadata, lockCall)
    /\ lockResult' = ReturnedByRange(metadata, lockCall)
    /\ lockCall' = NoLockCall
    /\ UNCHANGED <<counterFile, mapFile, files, chanCfg, maxSize, clock, lockedOverwrite>>
    /\ UNCHANGED notRange

\* retainContent / releaseContent run
ContentLockReturn ==
    /\ lockCall.op = "content"
    /\ metadata' = WrittenByContentLock(metadata, lockCall)
    /\ lockResult' = ReturnedByContentLock(metadata, lockCall)
    /\ lockCall' = NoLockCall
    /\ UNCHANGED <<counterFile, mapFile, files, chanCfg, maxSize, clock, lockedOverwrite>>
    /\ UNCHANGED notRange

\* a range call seen as one step
RangeCall(c) ==
    /\ lockCall = NoLockCall
    /\ metadata' = WrittenByRange(metadata, c)
    /\ UNCHANGED <<counterFile, mapFile, files, chanCfg, maxSize, clock, lockedOverwrite>>
    /\ UNCHANGED notRes

\* ------------------------------------------------------------------------
\* LockController: retainChannel / releaseChannel; ChannelController:
\* addChannel / editChannel
\* ------------------------------------------------------------------------
\* the retainedLocks arrays callers pass to addChannel and editChannel
RawLockLists == {<<>>, <<"w">>, <<" w ", "w">>, <<"a,b">>, <<"w", "a,b">>}

RetainChannel(ch, lockName) ==
    /\ LockName(lockName) # Rejected
    /\ chanCfg' = [chanCfg EXCEPT ![ch].retainedLocks =
                      NormalizeLocks(Append(@, LockName(lockName)), 1, <<>>)]
    /\ UNCHANGED <<counterFile, mapFile, files, metadata, maxSize, clock, lockedOverwrite>>
    /\ UNCHANGED notRes

ReleaseChannel(ch, lockName) ==
    /\ LockName(lockName) # Rejected
    /\ chanCfg' = [chanCfg EXCEPT ![ch].retainedLocks = WithoutLock(@, LockName(lockName))]
    /\ UNCHANGED <<counterFile, mapFile, files, metadata, maxSize, clock, lockedOverwrite>>
    /\ UNCHANGED notRes

\* editChannel(ch, {retainedLocks})
EditChannel(ch, lockNames) ==
    /\ NormalizeLocksValidated(lockNames) # Rejected
    /\ chanCfg' = [chanCfg EXCEPT ![ch].retainedLocks =
                      NormalizeLocks(NormalizeLocksValidated(lockNames), 1, <<>>)]
    /\ UNCHANGED <<counterFile, mapFile, files, metadata, maxSize, clock, lockedOverwrite>>
    /\ UNCHANGED notRes

\* the channel.json files addChannel writes for the configs it accepts
CreatedConfigs ==
    {[dup |-> "keep-both", idField |-> FALSE, retainedLocks |-> NormalizeLocksValidated(l)] :
        l \in {r \in RawLockLists : NormalizeLocksValidated(r) # Rejected}}

\* the locations a user puts files of their own at
DropPaths == {<<"c1", "a", 0>>, <<"c2", "a", 0>>}

\* a markdown file is put into a channel directory by hand
ExternalCreate(p, c) ==
    /\ files[p] = NoFile
    /\ files' = [files EXCEPT ![p] = c]
    /\ UNCHANGED <<counterFile, mapFile, chanCfg, metadata, maxSize, clock, lockedOverwrite>>
    /\ UNCHANGED notRes

\* ContentIdAllocator.setMapping called directly: the identifier is bound to
\* another document file
Rebind(id, p) ==
    LET b == SetMapping(counterFile, mapFile, id, p)
    IN  /\ Exists(files, p)
        /\ b.ctr <= MaxCounter
        /\ counterFile' = b.ctr
        /\ mapFile' = b.map
        /\ UNCHANGED <<files, chanCfg, metadata, maxSize, clock, lockedOverwrite>>
        /\ UNCHANGED notRes

\* a document file is removed by hand, outside the program
ExternalDelete(p) ==
    /\ files[p] # NoFile
    /\ files' = [files EXCEPT ![p] = NoFile]
    /\ UNCHANGED <<counterFile, mapFile, chanCfg, metadata, maxSize, clock, lockedOverwrite>>
    /\ UNCHANGED notRes

\* ------------------------------------------------------------------------
\* Initial states and specifications
\* ------------------------------------------------------------------------
NoFetchMem ==
    [batch |-> <<>>, k |-> 0, items |-> <<>>, byId |-> EmptyMap, existing |-> EmptyMap,
     persisted |-> <<>>, before |-> {}, id |-> NoId, plan |-> [key |-> <<"", 0>>, overwrite |-> FALSE, path |-> NoPath]]

NoSyncMem == [stale |-> {}, k |-> 0, items |-> <<>>, changed |-> FALSE]

StepsIdle ==
    /\ fpc = "idle"
    /\ fmem = NoFetchMem
    /\ spc = "idle"
    /\ smem = NoSyncMem

DEFAULT_REFRESH_INTERVAL_SECONDS == 86400

NoTime == -1

\* refreshInterval as InputNormalizer.channel leaves it (positive), and
\* rateLimitInterval (0: not configured), in seconds
RefreshIntervals == {1, 2}
RateLimitIntervals == {0, 3}
IntervalConfigs == [refreshInterval : RefreshIntervals, rateLimitInterval : RateLimitIntervals]

\* what the loop sleeps between two ticks plus what the tick itself took, in ms
TickGapsMs == {500, 1000, 1500}

\* channelPollInterval, in seconds
ChannelPollInterval(channel) ==
    Max(IF channel.refreshInterval > 0 THEN channel.refreshInterval
        ELSE DEFAULT_REFRESH_INTERVAL_SECONDS,
        IF channel.rateLimitInterval > 0 THEN channel.rateLimitInterval ELSE 0)

\* createBackgroundFetcherState
NewFetcherState ==
    [lastAttemptAt |-> [ch \in Channels |-> NoTime],
     lastFetchAt |-> [ch \in Channels |-> NoTime],
     lastError |-> [ch \in Channels |-> ""],
     invoked |-> {},
     thrown |-> FALSE]

NoPid == 0

SchedIdle ==
    /\ schedCfg = [ch \in Channels |-> [refreshInterval |-> 1, rateLimitInterval |-> 0]]
    /\ sched = NewFetcherState
    /\ attemptedAt = [ch \in Channels |-> NoTime]
    /\ lastTickMs = 0
    /\ schedPc = "off"

StartIdle ==
    /\ startPc = [p \in Procs |-> "none"]
    /\ pidFile = NoPid
    /\ signalled = [p \in Procs |-> FALSE]
    /\ refused = [p \in Procs |-> FALSE]
    /\ stopPc = "none"
    /\ stopPid = NoPid
    /\ statusFile = NoPid
    /\ statusReply = "none"

BackgroundIdle == SchedIdle /\ StartIdle

LprocIdle ==
    /\ lockFile = FALSE
    /\ lpc = [p \in Procs |-> "idle"]
    /\ lcall = [p \in Procs |-> NoCall]
    /\ ltmp = [p \in Procs |-> NoTmp]
    /\ ncalls = 0
    /\ allocLog = <<>>
    /\ hwm = counter0
    /\ allocOnly = TRUE

EmptyDisk ==
    /\ files = [p \in Paths |-> NoFile]
    /\ metadata = [ch \in Channels |-> <<>>]

EmptyReservoir ==
    /\ EmptyDisk
    /\ clock = 0
    /\ lockedOverwrite = FALSE
    /\ StepsIdle

DefaultConfig == [dup |-> "keep-both", idField |-> FALSE, retainedLocks |-> <<>>]

RetainingConfig == [dup |-> "keep-both", idField |-> FALSE, retainedLocks |-> <<"w">>]

\* a freshly initialised reservoir with two channels added
Init ==
    /\ counter0 = 0
    /\ counterFile = 0
    /\ mapFile = EmptyMap
    /\ LprocIdle
    /\ LocksIdle
    /\ SizeIdle
    /\ DirsIdle
    /\ EmptyReservoir
    /\ chanCfg \in {[ch \in Channels |-> IF ch = "c1" THEN c ELSE RetainingConfig] :
                       c \in ChannelConfigs}
    /\ maxSize \in 0..MaxBudget
    /\ BackgroundIdle

Next ==
    \/ \E ch \in Channels, fetched \in FetchedBatches : FetchChannel(ch, fetched)
    \/ Sync
    \/ Clean
    \/ \E id \in 1..MaxCounter, l \in Locks : RetainContent(id, l)
    \/ \E id \in 1..MaxCounter, l \in Locks : ReleaseContent(id, l)
    \/ \E p \in Paths : ExternalDelete(p)

Spec == Init /\ [][Next]_vars

\* ------------------------------------------------------------------------
\* SpecRange: retain/release calls on a reservoir that holds documents
\* ------------------------------------------------------------------------
\* the channels of the documents 1, 2, ... that keep-both fetches have stored
RangeShapes == UNION {[1..n -> Channels] : n \in 1..MaxCounter}

\* the file of document k: content.md, content-1.md, ... of its channel
ShapePath(shape, k) ==
    <<shape[k], "content", Cardinality({j \in 1..(k - 1) : shape[j] = shape[k]})>>

ShapeRecords(shape, ch) ==
    LET mine == SelectSeq([k \in 1..Len(shape) |-> k], LAMBDA k : shape[k] = ch)
    IN  [i \in 1..Len(mine) |->
            [id |-> mine[i],
             locks |-> IF ch = "c1" THEN DefaultConfig.retainedLocks
                       ELSE RetainingConfig.retainedLocks,
             fetchedAt |-> mine[i],
             filePath |-> ShapePath(shape, mine[i])]]

RangeInit ==
    /\ counter0 = 0
    /\ LprocIdle
    /\ LocksIdle
    /\ SizeIdle
    /\ DirsIdle
    /\ StepsIdle
    /\ BackgroundIdle
    /\ chanCfg = [ch \in Channels |-> IF ch = "c1" THEN DefaultConfig ELSE RetainingConfig]
    /\ maxSize = 0
    /\ lockedOverwrite = FALSE
    /\ \E shape \in RangeShapes :
          /\ counterFile = Len(shape)
          /\ clock = Len(shape)
          /\ mapFile = [id \in 1..Len(shape) |-> ShapePath(shape, id)]
          /\ files = [p \in Paths |->
                         IF \E k \in 1..Len(shape) : ShapePath(shape, k) = p
                         THEN [idv |-> "", body |-> "v1"] ELSE NoFile]
          /\ metadata = [ch \in Channels |-> ShapeRecords(shape, ch)]

RangeNext ==
    \/ \E c \in RangeCalls \cup ContentLockCalls : LockRequest(c)
    \/ RangeReturn
    \/ ContentLockReturn

SpecRange == RangeInit /\ [][RangeNext]_vars

\* ------------------------------------------------------------------------
\* SpecLocks: every operation that takes a lock name, and the fetches that
\* hand the channel's names to new documents
\* ------------------------------------------------------------------------
LocksInit ==
    /\ counter0 = 0
    /\ counterFile = 0
    /\ mapFile = EmptyMap
    /\ LprocIdle
    /\ LocksIdle
    /\ SizeIdle
    /\ DirsIdle
    /\ EmptyReservoir
    /\ chanCfg \in [Channels -> CreatedConfigs]
    /\ maxSize = 0
    /\ BackgroundIdle

\* the range calls of SpecLocks: open or closed at document 1, all channels
LocksRangeCalls ==
    [op : {"range"}, retain : BOOLEAN, from : {NoBound, "1"}, to : {NoBound, "1"},
     ch : {NoChannel}, name : CallLockNames]

LocksNext ==
    \/ \E ch \in Channels, fetched \in OneItemBatches : FetchChannel(ch, fetched)
    \/ \E ch \in Channels, l \in RawLockNames : RetainChannel(ch, l)
    \/ \E ch \in Channels, l \in RawLockNames : ReleaseChannel(ch, l)
    \/ \E ch \in Channels, ls \in RawLockLists : EditChannel(ch, ls)
    \/ \E id \in 1..MaxCounter, l \in RawLockNames : RetainContent(id, l)
    \/ \E id \in 1..MaxCounter, l \in RawLockNames : ReleaseContent(id, l)
    \/ \E c \in LocksRangeCalls : RangeCall(c)

SpecLocks == LocksInit /\ [][LocksNext]_vars

\* ------------------------------------------------------------------------
\* SpecSync: the reconciliation pass over a disk that fetches, the user's own
\* files and direct ledger calls have shaped
\* ------------------------------------------------------------------------
SyncInit ==
    /\ Init
    /\ chanCfg = [ch \in Channels |-> IF ch = "c1" THEN DefaultConfig ELSE RetainingConfig]
    /\ maxSize = 0

SyncNext ==
    \/ \E ch \in Channels, fetched \in OneItemBatches : FetchChannel(ch, fetched)
    \/ Sync
    \/ \E p \in Paths : ExternalDelete(p)
    \/ \E p \in DropPaths : ExternalCreate(p, [idv |-> "", body |-> "v2"])
    \/ \E id \in 1..MaxBindId, p \in Paths : Rebind(id, p)

SpecSync == SyncInit /\ [][SyncNext]_vars

\* ------------------------------------------------------------------------
\* SpecIngest: fetches into channels whose directories the user also puts
\* files into and deletes files from
\* ------------------------------------------------------------------------
\* the locations of the files a.md and a-1.md, ... that a user creates
NamedPaths == {p \in Paths : p[2] = "a"}

\* what the fetchers of SpecIngest return: nothing, or one item; the file name
\* a is its own slug, the file name A is not
IngestBatches ==
    {<<>>} \cup {<<it>> : it \in [name : FetchedNames \cup {"a"},
                                   idv : FieldValues \cup {""}, body : Bodies]}

IngestInit ==
    /\ Init
    /\ maxSize = 0

IngestNext ==
    \/ \E ch \in Channels, fetched \in IngestBatches : FetchChannel(ch, fetched)
    \/ \E p \in Paths : ExternalDelete(p)
    \/ \E p \in NamedPaths : ExternalCreate(p, [idv |-> "", body |-> "v2"])

SpecIngest == IngestInit /\ [][IngestNext]_vars

\* ------------------------------------------------------------------------
\* Fetches whose fetcher rejects (SpecFetchFail)
\* ------------------------------------------------------------------------
\* (variant) an identifier is reserved before the fetcher is called
FetchChannelFailsAfterNextId(ch) ==
    LET synced == SyncContentTracking(mapFile, metadata, files)
    IN  /\ mapFile' = synced.map
        /\ metadata' = synced.meta
        /\ counterFile' = ReadCurrentValue(counterFile) + 1
        /\ lockResult' = Thrown("fetch failed")
        /\ UNCHANGED <<files, chanCfg, maxSize, clock, lockedOverwrite, lockCall>>
        /\ UNCHANGED <<lprocVars, stepVars, schedVars, startVars, sizeVars, dirVars>>

\* fetchChannel(ch) when fetcher.fetch rejects (part_016 lines 56-60): the
\* reconciliation pass has run, the call rejects with the fetcher's error
FetchChannelFails(ch) ==
    LET synced == SyncContentTracking(mapFile, metadata, files)
    IN  /\ mapFile' = synced.map
        /\ metadata' = synced.meta
        /\ lockResult' = Thrown("fetch failed")
        /\ UNCHANGED <<counterFile, files, chanCfg, maxSize, clock, lockedOverwrite, lockCall>>
        /\ UNCHANGED <<lprocVars, stepVars, schedVars, startVars, sizeVars, dirVars>>

FetchFailNext ==
    \/ IngestNext
    \/ \E ch \in Channels : FetchChannelFails(ch)

SpecFetchFail == IngestInit /\ [][FetchFailNext]_vars

\* ------------------------------------------------------------------------
\* Channels that are deleted and created again (SpecDelete).  A channel's
\* channel.json and metadata.json live in <dir>/.res/channels/<id>, its
\* documents in <dir>/<id> (resolveChannelContentRoot).
\* ------------------------------------------------------------------------
\* .res/channels/<id> does not exist
NoChannelConfig == [dup |-> "-", idField |-> FALSE, retainedLocks |-> <<>>]

ChannelExists(cfgs, ch) == cfgs[ch] # NoChannelConfig

\* deleteChannel: resolveChannelDir throws 'Channel not found' for an unknown
\* id, else rmSync of <dir>/.res/channels/<id>
DeleteChannel(ch) ==
    /\ ChannelExists(chanCfg, ch)
    /\ chanCfg' = [chanCfg EXCEPT ![ch] = NoChannelConfig]
    /\ metadata' = [metadata EXCEPT ![ch] = <<>>]
    /\ UNCHANGED <<counterFile, mapFile, files, maxSize, clock, lockedOverwrite>>
    /\ UNCHANGED notRes

\* addChannel with a name whose slug is ch while no directory of that name
\* exists: the new channel's id is ch, its metadata.json is { items: [] }
AddChannel(ch, cfg) ==
    /\ ~ChannelExists(chanCfg, ch)
    /\ chanCfg' = [chanCfg EXCEPT ![ch] = cfg]
    /\ metadata' = [metadata EXCEPT ![ch] = <<>>]
    /\ UNCHANGED <<counterFile, mapFile, files, maxSize, clock, lockedOverwrite>>
    /\ UNCHANGED notRes

\* fetchChannel of a channel that exists (viewChannel throws otherwise)
FetchExisting(ch, fetched) ==
    /\ ChannelExists(chanCfg, ch)
    /\ FetchChannel(ch, fetched)

DeleteNext ==
    \/ \E ch \in Channels, fetched \in OneItemBatches : FetchExisting(ch, fetched)
    \/ \E ch \in Channels : DeleteChannel(ch)
    \/ \E ch \in Channels, cfg \in ChannelConfigs : AddChannel(ch, cfg)

SpecDelete == IngestInit /\ [][DeleteNext]_vars

\* ------------------------------------------------------------------------
\* Reservoir.setMaxSizeMB (SpecBudget)
\* ------------------------------------------------------------------------
\* the numbers a caller passes: finite ones, NaN and Infinity
RawSizes ==
    {[kind |-> "finite", n |-> k] : k \in -1..MaxBudget}
    \cup {[kind |-> "NaN", n |-> 0], [kind |-> "Infinity", n |-> 0]}

\* Number.isFinite
NumberIsFinite(v) == v.kind = "finite"

\* the test of lines 133-135
InvalidSize(v) == ~NumberIsFinite(v) \/ v.n <= 0

\* (variant) the new budget is saved and no eviction pass is run
SetMaxSizeMBNoClean(v) ==
    /\ IF InvalidSize(v)
       THEN /\ sizeResult' = "rejected"
            /\ UNCHANGED <<files, metadata, maxSize>>
       ELSE /\ maxSize' = v.n
            /\ sizeResult' = "set"
            /\ UNCHANGED <<files, metadata>>
    /\ UNCHANGED <<counterFile, mapFile, chanCfg, clock, lockedOverwrite>>
    /\ UNCHANGED <<lprocVars, stepVars, schedVars, startVars, lockVars, dirVars>>

\* setMaxSizeMB: reject, else save the new budget and, when a budget was
\* configured and the new one is lower, run clean() with the new budget
SetMaxSizeMB(v) ==
    /\ IF InvalidSize(v)
       THEN /\ sizeResult' = "rejected"
            /\ UNCHANGED <<files, metadata, maxSize>>
       ELSE LET ev == IF maxSize # 0 /\ v.n < maxSize
                      THEN CleanResult(files, metadata, mapFile, v.n)
                      ELSE [files |-> files, meta |-> metadata]
            IN  /\ maxSize' = v.n
                /\ files' = ev.files
                /\ metadata' = ev.meta
                /\ sizeResult' = "set"
    /\ UNCHANGED <<counterFile, mapFile, chanCfg, clock, lockedOverwrite>>
    /\ UNCHANGED <<lprocVars, stepVars, schedVars, startVars, lockVars, dirVars>>

BudgetNext ==
    \/ \E ch \in Channels, fetched \in OneItemBatches : FetchChannel(ch, fetched)
    \/ \E v \in RawSizes : SetMaxSizeMB(v)

SpecBudget == Init /\ [][BudgetNext]_vars

\* ------------------------------------------------------------------------
\* Calls that may be rejected (SpecReject): viewChannel, editChannel,
\* deleteChannel, retainChannel, releaseChannel, retainContent and
\* releaseContent, each as one step that leaves in lockResult what it
\* returned or threw.  schedCfg[ch].refreshInterval is the value stored in
\* channel.json; addChannel stores what the caller gave (line 215).
\* ------------------------------------------------------------------------
\* the refreshInterval values addChannel may have stored (0: not positive)
StoredRefreshIntervals == {0, 1}

\* the duplicateStrategy values a caller of editChannel passes
RawDuplicateStrategies == {"overwrite", "keep-both", "bogus"}

\* the lock names and lock lists the callers of SpecReject pass
RejectLockNames == {"w", "a,b"}
RejectLockLists == {<<>>, <<"a,b">>}

\* InputNormalizer.duplicateStrategy throws
InvalidDuplicateStrategy(d) == d \notin {"overwrite", "keep-both"}

\* InputNormalizer.channel: refreshInterval as viewChannel returns it
NormalRefresh(r) == IF r > 0 THEN r ELSE DEFAULT_REFRESH_INTERVAL_SECONDS

\* viewChannel lines 256-258: channel.json is written back when the stored
\* refreshInterval is not the normalized one
ViewWrites(scfg, ch) == [scfg EXCEPT ![ch].refreshInterval = NormalRefresh(@)]

\* listChannels does the same for every channel directory
ListWrites(cfgs, scfg) ==
    [ch \in Channels |-> IF ChannelExists(cfgs, ch) THEN ViewWrites(scfg, ch)[ch] ELSE scfg[ch]]

RejectFrame ==
    /\ UNCHANGED <<counterFile, mapFile, files, maxSize, clock, lockedOverwrite, lockCall>>
    /\ UNCHANGED <<sched, attemptedAt, lastTickMs, schedPc>>
    /\ UNCHANGED <<lprocVars, stepVars, startVars, sizeVars, dirVars>>

ViewChannelCall(ch) ==
    /\ IF ~ChannelExists(chanCfg, ch)
       THEN lockResult' = Thrown("Channel not found") /\ UNCHANGED schedCfg
       ELSE lockResult' = Returned(0) /\ schedCfg' = ViewWrites(schedCfg, ch)
    /\ UNCHANGED <<chanCfg, metadata>>
    /\ RejectFrame

\* editChannel with a duplicateStrategy and a retainedLocks update
EditChannelCall(ch, d, lockNames) ==
    /\ IF ~ChannelExists(chanCfg, ch)
       THEN lockResult' = Thrown("Channel not found") /\ UNCHANGED <<chanCfg, schedCfg>>
       ELSE /\ schedCfg' = ViewWrites(schedCfg, ch)
            /\ IF InvalidDuplicateStrategy(d)
               THEN lockResult' = Thrown("Invalid duplicate strategy") /\ UNCHANGED chanCfg
               ELSE IF NormalizeLocksValidated(lockNames) = Rejected
               THEN lockResult' = Thrown("Invalid lock name") /\ UNCHANGED chanCfg
               ELSE /\ lockResult' = Returned(0)
                    /\ chanCfg' = [chanCfg EXCEPT ![ch].dup = d,
                                       ![ch].retainedLocks = NormalizeLocksValidated(lockNames)]
    /\ UNCHANGED metadata
    /\ RejectFrame

DeleteChannelCall(ch) ==
    /\ IF ~ChannelExists(chanCfg, ch)
       THEN lockResult' = Thrown("Channel not found") /\ UNCHANGED <<chanCfg, metadata>>
       ELSE /\ lockResult' = Returned(0)
            /\ chanCfg' = [chanCfg EXCEPT ![ch] = NoChannelConfig]
            /\ metadata' = [metadata EXCEPT ![ch] = <<>>]
    /\ UNCHANGED schedCfg
    /\ RejectFrame

\* retainChannel / releaseChannel: viewChannel, then InputNormalizer.lockName
ChannelLockCall(ch, lockName, retain) ==
    /\ IF ~ChannelExists(chanCfg, ch)
       THEN lockResult' = Thrown("Channel not found") /\ UNCHANGED <<chanCfg, schedCfg>>
       ELSE /\ schedCfg' = ViewWrites(schedCfg, ch)
            /\ IF LockName(lockName) = Rejected
               THEN lockResult' = Thrown("Invalid lock name") /\ UNCHANGED chanCfg
               ELSE /\ lockResult' = Returned(0)
                    /\ chanCfg' = [chanCfg EXCEPT ![ch].retainedLocks =
                                       IF retain
                                       THEN NormalizeLocks(Append(@, LockName(lockName)), 1, <<>>)
                                       ELSE WithoutLock(@, LockName(lockName))]
    /\ UNCHANGED metadata
    /\ RejectFrame

\* retainContent / releaseContent: InputNormalizer.lockName, then findItem
\* over listChannels
ContentLockCall(id, lockName, retain) ==
    /\ IF LockName(lockName) = Rejected
       THEN lockResult' = Thrown("Invalid lock name") /\ UNCHANGED <<schedCfg, metadata>>
       ELSE /\ schedCfg' = ListWrites(chanCfg, schedCfg)
            /\ IF FindItemChannel(metadata, id) = ""
               THEN lockResult' = Thrown("Content not found") /\ UNCHANGED metadata
               ELSE /\ lockResult' = Returned(0)
                    /\ metadata' = UpdateContentLock(metadata, id, LockName(lockName), retain)
    /\ UNCHANGED chanCfg
    /\ RejectFrame

\* a reservoir in which addChannel has been called once or twice
RejectInit ==
    /\ counter0 = 0
    /\ counterFile = 0
    /\ mapFile = EmptyMap
    /\ LprocIdle
    /\ LocksIdle
    /\ SizeIdle
    /\ DirsIdle
    /\ EmptyReservoir
    /\ chanCfg \in {[ch \in Channels |-> IF ch = "c1" THEN DefaultConfig ELSE c] :
                       c \in {RetainingConfig, NoChannelConfig}}
    /\ maxSize = 0
    /\ StartIdle
    /\ schedCfg \in [Channels -> [refreshInterval : StoredRefreshIntervals, rateLimitInterval : {0}]]
    /\ sched = NewFetcherState
    /\ attemptedAt = [ch \in Channels |-> NoTime]
    /\ lastTickMs = 0
    /\ schedPc = "off"

RejectCall ==
    \/ \E ch \in Channels : ViewChannelCall(ch)
    \/ \E ch \in Channels, d \in RawDuplicateStrategies, l \in RejectLockLists :
          EditChannelCall(ch, d, l)
    \/ \E ch \in Channels : DeleteChannelCall(ch)
    \/ \E ch \in Channels, l \in RejectLockNames, retain \in BOOLEAN :
          ChannelLockCall(ch, l, retain)
    \/ \E id \in 1..MaxCounter, l \in RejectLockNames, retain \in BOOLEAN :
          ContentLockCall(id, l, retain)

RejectNext ==
    \/ RejectCall
    \/ \E ch \in Channels : FetchExisting(ch, <<[name |-> "", idv |-> "", body |-> "v1"]>>)

SpecReject == RejectInit /\ [][RejectNext]_vars

\* ------------------------------------------------------------------------
\* addChannel and the names of the channel directories (SpecCreate)
\* ------------------------------------------------------------------------
\* channel directories one behaviour of SpecCreate holds at a time
MaxChannels == 3

\* the names callers give their channels
ChannelNames == {"Same Name", " same name ", "Same Name 2", "!!"}

\* channelDirectorySlug: trim, lower-case, runs of other characters become
\* "-", leading and trailing "-" are dropped, an empty slug becomes 'channel'
ChannelDirectorySlug(name) ==
    CASE name = "Same Name" -> "same-name"
      [] name = " same name " -> "same-name"
      [] name = "Same Name 2" -> "same-name-2"
      [] name = "!!" -> "channel"

\* the names readdirSync finds in .res/channels
DirNames(dirs) == {d.dir : d \in dirs}

\* (variant) the directory name is the slug, whatever exists
ChannelDirNameNoProbe(names, base, suffix) == base

\* addChannel lines 202-208: the slug, or the slug with the first suffix from
\* 2 on for which no directory exists
RECURSIVE ChannelDirName(_, _, _)
ChannelDirName(names, base, suffix) ==
    LET candidate == IF suffix < 2 THEN base ELSE base \o "-" \o ToString(suffix)
    IN  IF candidate \in names
        THEN ChannelDirName(names, base, IF suffix < 2 THEN 2 ELSE suffix + 1)
        ELSE candidate

CreateFrame ==
    UNCHANGED <<ledgerFiles, lprocVars, resVars, stepVars, schedVars, startVars, lockVars, sizeVars>>

\* addChannel: mkdirSync(recursive) and writeFileSync of channel.json and
\* metadata.json in the directory chosen
AddChannelDir(name) ==
    LET dirName == ChannelDirName(DirNames(channelDirs), ChannelDirectorySlug(name), 1)
    IN  /\ Cardinality(channelDirs) < MaxChannels
        /\ channelDirs' = {d \in channelDirs : d.dir # dirName}
                              \cup {[dir |-> dirName, id |-> dirName, name |-> name]}
        /\ CreateFrame

\* deleteChannel of a channel that exists
DeleteChannelDir(id) ==
    /\ \E d \in channelDirs : d.id = id
    /\ channelDirs' = {d \in channelDirs : d.id # id}
    /\ CreateFrame

\* an initialised reservoir without channels
CreateInit ==
    /\ counter0 = 0
    /\ counterFile = 0
    /\ mapFile = EmptyMap
    /\ LprocIdle
    /\ LocksIdle
    /\ SizeIdle
    /\ DirsIdle
    /\ EmptyReservoir
    /\ chanCfg = [ch \in Channels |-> NoChannelConfig]
    /\ maxSize = 0
    /\ BackgroundIdle

CreateNext ==
    \/ \E name \in ChannelNames : AddChannelDir(name)
    \/ \E d \in channelDirs : DeleteChannelDir(d.id)

SpecCreate == CreateInit /\ [][CreateNext]_vars

\* ------------------------------------------------------------------------
\* A fetch and a reconciliation pass of another process, step by step
\* (SpecSteps).  Each step is one access to the shared disk; the two
\* processes share nothing else.  The fetching process may die between two
\* steps; a later process then runs one reconciliation pass.
\* ------------------------------------------------------------------------
FetchedChannel == "c1"

\* history: the documents tracked when the fetch begins, as [ch, id, locks, path]
TrackedBefore(meta, map, fs) ==
    UNION {{[ch |-> ch, id |-> meta[ch][i].id, locks |-> meta[ch][i].locks,
             path |-> ResolvePath(meta[ch][i], map)] :
               i \in {j \in 1..Len(meta[ch]) : Exists(fs, ResolvePath(meta[ch][j], map))}} :
           ch \in Channels}

\* fetchChannel lines 56-60: the reconciliation pass that opens every fetch,
\* then the fetcher returns its batch
FBegin(fetched) ==
    LET synced == SyncContentTracking(mapFile, metadata, files)
    IN  /\ fpc = "idle"
        /\ clock < MaxClock
        /\ mapFile' = synced.map
        /\ metadata' = synced.meta
        /\ fmem' = [NoFetchMem EXCEPT !.batch = fetched,
                                      !.before = TrackedBefore(metadata, mapFile, files)]
        /\ fpc' = "load"
        /\ UNCHANGED <<counterFile, files, chanCfg, maxSize, clock, lockedOverwrite, spc, smem>>
        /\ UNCHANGED notSteps

\* lines 62-66: loadMetadata and buildExistingContentByDedupeKey
FLoad ==
    LET st == LoadForFetch(metadata[FetchedChannel], counterFile, mapFile, files,
                           chanCfg[FetchedChannel])
    IN  /\ fpc = "load"
        /\ fmem' = [fmem EXCEPT !.k = 1, !.items = st.items, !.byId = st.byId,
                                !.existing = st.existing]
        /\ fpc' = IF Len(fmem.batch) = 0 THEN "done" ELSE "assign"
        /\ clock' = IF Len(fmem.batch) = 0 THEN clock ELSE clock + 1
        /\ UNCHANGED <<ledgerFiles, files, chanCfg, metadata, maxSize, lockedOverwrite, spc, smem>>
        /\ UNCHANGED notSteps

\* lines 69-115: the item's location, its identifier (assignIdToFile, under
\* the ledger lock) and its record in the in-memory metadata
FAssign ==
    LET cfg == chanCfg[FetchedChannel]
        plan == PlanItem(fmem.existing, files, FetchedChannel, cfg, fmem.batch[fmem.k])
        a == IdForItem(fmem.existing, counterFile, mapFile, plan)
        r == RecordItem(fmem.items, fmem.byId, cfg, plan, a.id, clock)
    IN  /\ fpc = "assign"
        /\ plan.path[3] <= MaxSuffix
        /\ Max(a.ctr, a.id) <= MaxCounter
        /\ counterFile' = a.ctr
        /\ mapFile' = a.map
        /\ fmem' = [fmem EXCEPT !.items = r.items, !.byId = r.byId, !.id = a.id, !.plan = plan]
        /\ fpc' = "map"
        /\ UNCHANGED <<files, chanCfg, metadata, maxSize, clock, lockedOverwrite, spc, smem>>
        /\ UNCHANGED notSteps

\* line 123: setMapping(id, contentPath), under the ledger lock
FSetMapping ==
    LET b == SetMapping(counterFile, mapFile, fmem.id, fmem.plan.path)
    IN  /\ fpc = "map"
        /\ counterFile' = b.ctr
        /\ mapFile' = b.map
        /\ fpc' = "write"
        /\ UNCHANGED <<files, chanCfg, metadata, maxSize, clock, lockedOverwrite, fmem, spc, smem>>
        /\ UNCHANGED notSteps

\* lines 124-142: writeFileSync(contentPath), then the loop goes on
FWrite ==
    LET item == fmem.batch[fmem.k]
    IN  /\ fpc = "write"
        /\ files' = [files EXCEPT ![fmem.plan.path] = [idv |-> item.idv, body |-> item.body]]
        /\ fmem' = [fmem EXCEPT
                      !.existing = MapSet(@, fmem.plan.key, [path |-> fmem.plan.path, cid |-> fmem.id]),
                      !.persisted = Append(@, fmem.id),
                      !.k = @ + 1]
        /\ fpc' = IF fmem.k < Len(fmem.batch) THEN "assign" ELSE "save"
        /\ UNCHANGED <<ledgerFiles, chanCfg, metadata, maxSize, clock, lockedOverwrite, spc, smem>>
        /\ UNCHANGED notSteps

\* lines 144-146: saveMetadata
FSave ==
    /\ fpc = "save"
    /\ metadata' = [metadata EXCEPT ![FetchedChannel] = fmem.items]
    /\ fpc' = "done"
    /\ UNCHANGED <<ledgerFiles, files, chanCfg, maxSize, clock, lockedOverwrite, fmem, spc, smem>>
    /\ UNCHANGED notSteps

\* the fetching process dies between two of its steps
FCrash ==
    /\ fpc \in {"load", "assign", "map", "write", "save"}
    /\ spc = "idle"
    /\ fpc' = "dead"
    /\ UNCHANGED <<ledgerFiles, files, chanCfg, metadata, maxSize, clock, lockedOverwrite, fmem, spc, smem>>
    /\ UNCHANGED notSteps

\* syncContentTracking lines 27-31: listMappings and the stale identifiers
SList ==
    /\ spc = "idle"
    /\ fpc \notin {"idle", "dead"}
    /\ smem' = [NoSyncMem EXCEPT !.stale = StaleIds(mapFile, files)]
    /\ spc' = "remove"
    /\ UNCHANGED <<ledgerFiles, files, chanCfg, metadata, maxSize, clock, lockedOverwrite, fpc, fmem>>
    /\ UNCHANGED notSteps

\* line 32: removeMappingById for every stale identifier, each under the
\* ledger lock
SRemove ==
    /\ spc = "remove"
    /\ mapFile' = [id \in (DOMAIN mapFile) \ smem.stale |-> mapFile[id]]
    /\ smem' = [smem EXCEPT !.k = 1]
    /\ spc' = "load"
    /\ UNCHANGED <<counterFile, files, chanCfg, metadata, maxSize, clock, lockedOverwrite, fpc, fmem>>
    /\ UNCHANGED notSteps

\* lines 35-83: loadMetadata of the next channel and the pass over its records
SLoad ==
    LET ch == ChannelOrder[smem.k]
        items == SyncItems(metadata[ch], mapFile, files)
    IN  /\ spc = "load"
        /\ smem' = [smem EXCEPT !.items = items, !.changed = (items # metadata[ch])]
        /\ spc' = "save"
        /\ UNCHANGED <<ledgerFiles, files, chanCfg, metadata, maxSize, clock, lockedOverwrite, fpc, fmem>>
        /\ UNCHANGED notSteps

\* lines 84-91: saveMetadata when the pass changed something
SSave ==
    LET ch == ChannelOrder[smem.k]
    IN  /\ spc = "save"
        /\ metadata' = IF smem.changed THEN [metadata EXCEPT ![ch] = smem.items] ELSE metadata
        /\ smem' = [smem EXCEPT !.k = @ + 1, !.items = <<>>, !.changed = FALSE]
        /\ spc' = IF smem.k < Len(ChannelOrder) THEN "load" ELSE "done"
        /\ UNCHANGED <<ledgerFiles, files, chanCfg, maxSize, clock, lockedOverwrite, fpc, fmem>>
        /\ UNCHANGED notSteps

\* after the fetching process died: one reconciliation pass of a new process
Recover ==
    LET synced == SyncContentTracking(mapFile, metadata, files)
    IN  /\ fpc = "dead"
        /\ spc = "idle"
        /\ mapFile' = synced.map
        /\ metadata' = synced.meta
        /\ spc' = "recovered"
        /\ UNCHANGED <<counterFile, files, chanCfg, maxSize, clock, lockedOverwrite, fpc, fmem, smem>>
        /\ UNCHANGED notSteps

TrackedPath == <<"c1", "a", 0>>

\* a reservoir that is empty, or holds one tracked and locked document
StepsInit ==
    /\ counter0 = 0
    /\ LprocIdle
    /\ LocksIdle
    /\ SizeIdle
    /\ DirsIdle
    /\ StepsIdle
    /\ BackgroundIdle
    /\ chanCfg \in {[ch \in Channels |-> IF ch = "c1" THEN c ELSE RetainingConfig] :
                       c \in ChannelConfigs}
    /\ maxSize = 0
    /\ lockedOverwrite = FALSE
    /\ \/ /\ EmptyDisk
          /\ counterFile = 0
          /\ mapFile = EmptyMap
          /\ clock = 0
       \/ /\ files = [p \in Paths |-> IF p = TrackedPath THEN [idv |-> "abc", body |-> "v1"] ELSE NoFile]
          /\ metadata = [ch \in Channels |->
                            IF ch = "c1"
                            THEN <<[id |-> 1, locks |-> <<"w">>, fetchedAt |-> 1, filePath |-> TrackedPath]>>
                            ELSE <<>>]
          /\ counterFile = 1
          /\ mapFile = MapSet(EmptyMap, 1, TrackedPath)
          /\ clock = 1

StepsNext ==
    \/ \E fetched \in FetchedBatches : FBegin(fetched)
    \/ FLoad
    \/ FAssign
    \/ FSetMapping
    \/ FWrite
    \/ FSave
    \/ FCrash
    \/ SList
    \/ SRemove
    \/ SLoad
    \/ SSave
    \/ Recover

SpecSteps == StepsInit /\ [][StepsNext]_vars

\* ------------------------------------------------------------------------
\* A fetch step by step while another process retains and releases
\* documents (SpecRetain)
\* ------------------------------------------------------------------------
RetainNext ==
    \/ \E fetched \in FetchedBatches : FBegin(fetched)
    \/ FLoad
    \/ FAssign
    \/ FSetMapping
    \/ FWrite
    \/ FSave
    \/ \E id \in 1..MaxCounter, l \in Locks : RetainContent(id, l)
    \/ \E id \in 1..MaxCounter, l \in Locks : ReleaseContent(id, l)

SpecRetain == StepsInit /\ [][RetainNext]_vars

\* ------------------------------------------------------------------------
\* The background fetcher: scheduled ticks (SpecSched)
\* ------------------------------------------------------------------------
\* (variant) the attempt time is recorded only after fetchChannel succeeded
TickChannelRecordOnSuccess(st, channels, ch, nowMs, failing) ==
    LET due == \/ st.lastAttemptAt[ch] = NoTime
               \/ nowMs - st.lastAttemptAt[ch] >= ChannelPollInterval(channels[ch]) * 1000
    IN  IF ~due THEN st
        ELSE IF ch \in failing
             THEN [st EXCEPT !.invoked = @ \cup {ch}, !.lastError[ch] = "error"]
             ELSE [st EXCEPT !.invoked = @ \cup {ch}, !.lastAttemptAt[ch] = nowMs,
                             !.lastFetchAt[ch] = nowMs, !.lastError[ch] = ""]

\* (variant) a failing fetchChannel is not caught: it ends the tick
TickChannelRethrow(st, channels, ch, nowMs, failing) ==
    LET due == \/ st.lastAttemptAt[ch] = NoTime
               \/ nowMs - st.lastAttemptAt[ch] >= ChannelPollInterval(channels[ch]) * 1000
        st1 == [st EXCEPT !.lastAttemptAt[ch] = nowMs, !.invoked = @ \cup {ch}]
    IN  IF ~due THEN st
        ELSE IF ch \in failing
             THEN [st1 EXCEPT !.thrown = TRUE]
             ELSE [st1 EXCEPT !.lastFetchAt[ch] = nowMs, !.lastError[ch] = ""]

\* (variant) the fetch time is recorded next to the attempt time
TickChannelMarkFetched(st, channels, ch, nowMs, failing) ==
    LET due == \/ st.lastAttemptAt[ch] = NoTime
               \/ nowMs - st.lastAttemptAt[ch] >= ChannelPollInterval(channels[ch]) * 1000
        st1 == [st EXCEPT !.lastAttemptAt[ch] = nowMs, !.lastFetchAt[ch] = nowMs,
                          !.invoked = @ \cup {ch}]
    IN  IF ~due THEN st
        ELSE IF ch \in failing
             THEN [st1 EXCEPT !.lastError[ch] = "error"]
             ELSE [st1 EXCEPT !.lastError[ch] = ""]

\* (variant) one attempt time is kept for all channels together
TickChannelSharedAttempt(st, channels, ch, nowMs, failing) ==
    LET due == \/ st.lastAttemptAt[ch] = NoTime
               \/ nowMs - st.lastAttemptAt[ch] >= ChannelPollInterval(channels[ch]) * 1000
        st1 == [st EXCEPT !.lastAttemptAt = [c \in Channels |-> nowMs],
                          !.invoked = @ \cup {ch}]
    IN  IF ~due THEN st
        ELSE IF ch \in failing
             THEN [st1 EXCEPT !.lastError[ch] = "error"]
             ELSE [st1 EXCEPT !.lastFetchAt[ch] = nowMs, !.lastError[ch] = ""]

\* runScheduledFetchTick lines 213-232: one channel of the loop; failing is
\* the set of channels whose fetchChannel rejects
TickChannel(st, channels, ch, nowMs, failing) ==
    LET due == \/ st.lastAttemptAt[ch] = NoTime
               \/ nowMs - st.lastAttemptAt[ch] >= ChannelPollInterval(channels[ch]) * 1000
        st1 == [st EXCEPT !.lastAttemptAt[ch] = nowMs, !.invoked = @ \cup {ch}]
    IN  IF ~due THEN st
        ELSE IF ch \in failing
             THEN [st1 EXCEPT !.lastError[ch] = "error"]
             ELSE [st1 EXCEPT !.lastFetchAt[ch] = nowMs, !.lastError[ch] = ""]

\* the loop over reservoir.listChannels() (line 212); an exception that
\* leaves the loop body ends the loop
RECURSIVE TickChannels(_, _, _, _, _)
TickChannels(st, channels, k, nowMs, failing) ==
    IF k > Len(ChannelOrder) \/ st.thrown THEN st
    ELSE TickChannels(TickChannel(st, channels, ChannelOrder[k], nowMs, failing),
                      channels, k + 1, nowMs, failing)

\* one pass of the loop of runBackgroundFetcherLoop (lines 322-334): the tick
\* that starts gap ms after the previous one, with the reconciliation pass
\* that opens it
Tick(gap, failing) ==
    LET synced == SyncContentTracking(mapFile, metadata, files)
        st == TickChannels([sched EXCEPT !.invoked = {}], schedCfg, 1, lastTickMs + gap, failing)
    IN  /\ schedPc = "running"
        /\ lastTickMs + gap <= MaxNowMs
        /\ lastTickMs' = lastTickMs + gap
        /\ mapFile' = synced.map
        /\ metadata' = synced.meta
        /\ sched' = st
        /\ attemptedAt' = [ch \in Channels |->
                              IF ch \in st.invoked THEN lastTickMs + gap ELSE attemptedAt[ch]]
        /\ schedPc' = IF st.thrown THEN "dead" ELSE "running"
        /\ UNCHANGED <<counterFile, files, chanCfg, maxSize, clock, lockedOverwrite, schedCfg>>
        /\ UNCHANGED notSched

\* a scheduler that has just entered its loop over an empty reservoir
SchedInit ==
    /\ counter0 = 0
    /\ counterFile = 0
    /\ mapFile = EmptyMap
    /\ LprocIdle
    /\ LocksIdle
    /\ SizeIdle
    /\ DirsIdle
    /\ EmptyReservoir
    /\ chanCfg = [ch \in Channels |-> DefaultConfig]
    /\ maxSize = 0
    /\ StartIdle
    /\ schedCfg \in [Channels -> IntervalConfigs]
    /\ sched = NewFetcherState
    /\ attemptedAt = [ch \in Channels |-> NoTime]
    /\ lastTickMs = 0
    /\ schedPc = "running"

SchedNext ==
    \E gap \in TickGapsMs, failing \in SUBSET Channels : Tick(gap, failing)

SpecSched == SchedInit /\ [][SchedNext]_vars

\* ------------------------------------------------------------------------
\* A scheduler that is stopped and started again between ticks (SpecRestart)
\* ------------------------------------------------------------------------
\* (variant) the new process takes the recorded attempts over as well
RestartKeepsAttempts ==
    /\ schedPc = "running"
    /\ \E ch \in Channels : sched.lastAttemptAt[ch] # NoTime
    /\ sched' = [sched EXCEPT !.invoked = {}]
    /\ UNCHANGED <<schedCfg, attemptedAt, lastTickMs, schedPc>>
    /\ UNCHANGED <<ledgerFiles, resVars>>
    /\ UNCHANGED notSched

\* the process ends after a tick's persist() and a new one starts:
\* createBackgroundFetcherState takes lastFetchAtByChannel and
\* lastErrorByChannel from the status file and starts with no attempts
Restart ==
    /\ schedPc = "running"
    /\ \E ch \in Channels : sched.lastAttemptAt[ch] # NoTime
    /\ sched' = [sched EXCEPT !.lastAttemptAt = [ch \in Channels |-> NoTime],
                              !.invoked = {}]
    /\ UNCHANGED <<schedCfg, attemptedAt, lastTickMs, schedPc>>
    /\ UNCHANGED <<ledgerFiles, resVars>>
    /\ UNCHANGED notSched

RestartNext ==
    \/ SchedNext
    \/ Restart

SpecRestart == SchedInit /\ [][RestartNext]_vars

\* ------------------------------------------------------------------------
\* A scheduler that ticks forever (SpecSchedLive).  Times are kept relative
\* to the current tick: after a tick every stored time is moved so that the
\* tick's own time reads MaxPollMs, and a time further back than the longest
\* poll interval reads 0; whether a source is due depends on the difference
\* to the tick's time only, and a source last attempted at 0 is due.
\* ------------------------------------------------------------------------
\* the longest channelPollInterval among the configurations, in ms
MaxPollMs ==
    CHOOSE m \in {ChannelPollInterval(c) * 1000 : c \in IntervalConfigs} :
        \A c \in IntervalConfigs : ChannelPollInterval(c) * 1000 <= m

\* a stored time as it reads once the tick at nowMs is taken as MaxPollMs
Rebase(t, nowMs) == IF t = NoTime THEN NoTime ELSE Max(0, t - (nowMs - MaxPollMs))

\* one pass of the loop of runBackgroundFetcherLoop, gap ms after the
\* previous one
TickOn(gap, failing) ==
    LET nowMs == lastTickMs + gap
        synced == SyncContentTracking(mapFile, metadata, files)
        st == TickChannels([sched EXCEPT !.invoked = {}], schedCfg, 1, nowMs, failing)
    IN  /\ schedPc = "running"
        /\ lastTickMs' = MaxPollMs
        /\ mapFile' = synced.map
        /\ metadata' = synced.meta
        /\ sched' = [st EXCEPT
                        !.lastAttemptAt = [ch \in Channels |-> Rebase(st.lastAttemptAt[ch], nowMs)],
                        !.lastFetchAt = [ch \in Channels |-> Rebase(st.lastFetchAt[ch], nowMs)]]
        /\ attemptedAt' = [ch \in Channels |->
                              IF ch \in st.invoked THEN MaxPollMs
                              ELSE Rebase(attemptedAt[ch], nowMs)]
        /\ schedPc' = IF st.thrown THEN "dead" ELSE "running"
        /\ UNCHANGED <<counterFile, files, chanCfg, maxSize, clock, lockedOverwrite, schedCfg>>
        /\ UNCHANGED notSched

SchedLiveNext ==
    \E gap \in TickGapsMs, failing \in SUBSET Channels : TickOn(gap, failing)

\* the loop is while (true) and every await in it ends: the next tick comes
SpecSchedLive == SchedInit /\ [][SchedLiveNext]_vars /\ WF_vars(SchedLiveNext)

\* ------------------------------------------------------------------------
\* The background fetcher: start and stop requests (SpecStart)
\* ------------------------------------------------------------------------
\* isProcessRunning(pid)
IsProcessRunning(pc, pid) == pid \in Procs /\ pc[pid] # "none"

\* startBackgroundFetcher line 176, ensureStartable: the request is refused
\* when the pid file names a live process
StartCheck(p) ==
    /\ startPc[p] = "none"
    /\ startPc' = [startPc EXCEPT ![p] = IF pidFile # NoPid /\ IsProcessRunning(startPc, pidFile)
                                         THEN "none" ELSE "checked"]
    /\ refused' = [refused EXCEPT ![p] = (pidFile # NoPid /\ IsProcessRunning(startPc, pidFile))]
    /\ UNCHANGED <<pidFile, signalled, stopPc, stopPid>>
    /\ UNCHANGED <<statusFile, statusReply>>
    /\ UNCHANGED notStart

\* line 181: writePidFile(absDir, process.pid)
StartWritePid(p) ==
    /\ startPc[p] = "checked"
    /\ ~signalled[p]
    /\ pidFile' = p
    /\ startPc' = [startPc EXCEPT ![p] = "marked"]
    /\ UNCHANGED <<signalled, refused, stopPc, stopPid>>
    /\ UNCHANGED <<statusFile, statusReply>>
    /\ UNCHANGED notStart

\* line 184 and runBackgroundFetcherLoop up to line 322: the signal handlers
\* are installed, the status file is written and the loop is entered
StartRunLoop(p) ==
    /\ startPc[p] = "marked"
    /\ ~signalled[p]
    /\ startPc' = [startPc EXCEPT ![p] = "loop"]
    /\ UNCHANGED <<pidFile, signalled, refused, stopPc, stopPid>>
    /\ statusFile' = p
    /\ UNCHANGED statusReply
    /\ UNCHANGED notStart

\* stopBackgroundFetcher lines 152-155, run by a separate command: readPidFile
StopRead ==
    /\ stopPc = "none"
    /\ stopPid' = pidFile
    /\ stopPc' = IF pidFile = NoPid THEN "none" ELSE "read"
    /\ UNCHANGED <<startPc, pidFile, signalled, refused>>
    /\ UNCHANGED <<statusFile, statusReply>>
    /\ UNCHANGED notStart

\* lines 157-162: a marker that names a dead process is removed; a live
\* process is sent SIGTERM
StopSignal ==
    /\ stopPc = "read"
    /\ IF IsProcessRunning(startPc, stopPid)
       THEN /\ signalled' = [signalled EXCEPT ![stopPid] = TRUE]
            /\ stopPc' = "signalled"
            /\ UNCHANGED <<pidFile, stopPid>>
       ELSE /\ pidFile' = NoPid
            /\ stopPc' = "none"
            /\ stopPid' = NoPid
            /\ UNCHANGED signalled
    /\ UNCHANGED <<startPc, refused>>
    /\ UNCHANGED <<statusFile, statusReply>>
    /\ UNCHANGED notStart

\* line 163: clearPidFile
StopClear ==
    /\ stopPc = "signalled"
    /\ pidFile' = NoPid
    /\ stopPc' = "none"
    /\ stopPid' = NoPid
    /\ UNCHANGED <<startPc, signalled, refused>>
    /\ UNCHANGED <<statusFile, statusReply>>
    /\ UNCHANGED notStart

\* getBackgroundFetcherStatus, as the status command calls it: running when
\* the pid file names a live process; no file is written
StatusQuery ==
    /\ statusReply' = IF pidFile # NoPid /\ IsProcessRunning(startPc, pidFile)
                      THEN "running" ELSE "not running"
    /\ UNCHANGED <<startPc, pidFile, signalled, refused, stopPc, stopPid, statusFile>>
    /\ UNCHANGED notStart

\* SIGINT or SIGTERM sent to the process from outside the program
Interrupt(p) ==
    /\ startPc[p] # "none"
    /\ ~signalled[p]
    /\ signalled' = [signalled EXCEPT ![p] = TRUE]
    /\ UNCHANGED <<startPc, pidFile, refused, stopPc, stopPid, statusFile, statusReply>>
    /\ UNCHANGED notStart

\* the process is killed outright (SIGKILL): no handler runs
Killed(p) ==
    /\ startPc[p] # "none"
    /\ startPc' = [startPc EXCEPT ![p] = "none"]
    /\ signalled' = [signalled EXCEPT ![p] = FALSE]
    /\ UNCHANGED <<pidFile, refused, stopPc, stopPid>>
    /\ UNCHANGED <<statusFile, statusReply>>
    /\ UNCHANGED notStart

\* a shutdown handler that exits without clearPidFile
ShutdownKeepsMarker(p) ==
    /\ startPc[p] = "loop"
    /\ signalled[p]
    /\ startPc' = [startPc EXCEPT ![p] = "none"]
    /\ signalled' = [signalled EXCEPT ![p] = FALSE]
    /\ UNCHANGED <<pidFile, refused, stopPc, stopPid>>
    /\ statusFile' = p
    /\ UNCHANGED statusReply
    /\ UNCHANGED notStart

\* the shutdown handler (lines 302-314): clearPidFile, persist, exit
Shutdown(p) ==
    /\ startPc[p] = "loop"
    /\ signalled[p]
    /\ pidFile' = NoPid
    /\ startPc' = [startPc EXCEPT ![p] = "none"]
    /\ signalled' = [signalled EXCEPT ![p] = FALSE]
    /\ UNCHANGED <<refused, stopPc, stopPid>>
    /\ statusFile' = p
    /\ UNCHANGED statusReply
    /\ UNCHANGED notStart

\* SIGTERM before the handlers are installed ends the process at once
Terminated(p) ==
    /\ startPc[p] \in {"checked", "marked"}
    /\ signalled[p]
    /\ startPc' = [startPc EXCEPT ![p] = "none"]
    /\ signalled' = [signalled EXCEPT ![p] = FALSE]
    /\ UNCHANGED <<pidFile, refused, stopPc, stopPid>>
    /\ UNCHANGED <<statusFile, statusReply>>
    /\ UNCHANGED notStart

StartInit ==
    /\ counter0 = 0
    /\ counterFile = 0
    /\ mapFile = EmptyMap
    /\ LprocIdle
    /\ LocksIdle
    /\ SizeIdle
    /\ DirsIdle
    /\ EmptyReservoir
    /\ chanCfg = [ch \in Channels |-> DefaultConfig]
    /\ maxSize = 0
    /\ SchedIdle
    /\ StartIdle

StartNext ==
    \/ \E p \in Procs : StartCheck(p)
    \/ \E p \in Procs : StartWritePid(p)
    \/ \E p \in Procs : StartRunLoop(p)
    \/ StopRead
    \/ StopSignal
    \/ StopClear
    \/ StatusQuery
    \/ \E p \in Procs : Interrupt(p)
    \/ \E p \in Procs : Killed(p)
    \/ \E p \in Procs : Shutdown(p)
    \/ \E p \in Procs : Terminated(p)

SpecStart == StartInit /\ [][StartNext]_vars

\* ------------------------------------------------------------------------
\* The scheduler process and the ingest its tick runs (SpecLoop): the loop
\* of runBackgroundFetcher (lines 322-334) with fetchChannel step by step.
\* A signal handler runs when the process is back in the event loop: while
\* it awaits the fetcher's result and while it sleeps between two ticks.
\* ------------------------------------------------------------------------
\* the process that runs the scheduler
LoopProc == CHOOSE p \in Procs : \A q \in Procs : p <= q

LoopRunning == startPc[LoopProc] = "loop"

\* a tick finds the source due: fetchChannel opens with the reconciliation
\* pass (part_016 line 56) and calls fetcher.fetch (line 60)
TickBegin ==
    LET synced == SyncContentTracking(mapFile, metadata, files)
    IN  /\ LoopRunning
        /\ fpc = "idle"
        /\ clock < MaxClock
        /\ mapFile' = synced.map
        /\ metadata' = synced.meta
        /\ fmem' = [NoFetchMem EXCEPT !.before = TrackedBefore(metadata, mapFile, files)]
        /\ fpc' = "fetch"
        /\ UNCHANGED <<counterFile, files, chanCfg, maxSize, clock, lockedOverwrite, spc, smem>>
        /\ UNCHANGED notSteps

\* the promise of fetcher.fetch resolves with the batch
TickFetchReturns(fetched) ==
    /\ LoopRunning
    /\ fpc = "fetch"
    /\ fmem' = [fmem EXCEPT !.batch = fetched]
    /\ fpc' = "load"
    /\ UNCHANGED <<ledgerFiles, resVars, spc, smem>>
    /\ UNCHANGED notSteps

\* the rest of fetchChannel, as long as the process lives
TickIngest ==
    /\ LoopRunning
    /\ \/ FLoad
       \/ FAssign
       \/ FSetMapping
       \/ FWrite
       \/ FSave

\* lines 332-333: the tick is over, persist() and sleep tickIntervalMs
TickEnd ==
    /\ LoopRunning
    /\ fpc = "done"
    /\ fpc' = "idle"
    /\ statusFile' = LoopProc
    /\ UNCHANGED <<fmem, spc, smem>>
    /\ UNCHANGED <<startPc, pidFile, signalled, refused, stopPc, stopPid, statusReply>>
    /\ UNCHANGED <<ledgerFiles, lprocVars, resVars, schedVars, lockVars, sizeVars, dirVars>>

\* the handler runs when the event loop has control: in the sleep between
\* two ticks and while fetcher.fetch is awaited
LoopShutdown ==
    /\ fpc \in {"idle", "fetch"}
    /\ Shutdown(LoopProc)

LoopNext ==
    \/ StartCheck(LoopProc)
    \/ StartWritePid(LoopProc)
    \/ StartRunLoop(LoopProc)
    \/ TickBegin
    \/ \E fetched \in FetchedBatches : TickFetchReturns(fetched)
    \/ TickIngest
    \/ TickEnd
    \/ Interrupt(LoopProc)
    \/ Terminated(LoopProc)
    \/ LoopShutdown

SpecLoop == StepsInit /\ [][LoopNext]_vars

\* ------------------------------------------------------------------------
\* The scheduler's loop when a step of a tick fails (SpecTickFail)
\* ------------------------------------------------------------------------
\* fetcher.fetch rejects: fetchChannel rejects with that error, the catch
\* block of the tick records it (lines 228-232) and the tick goes on
TickFetchFails ==
    /\ LoopRunning
    /\ fpc = "fetch"
    /\ fpc' = "done"
    /\ UNCHANGED <<fmem, spc, smem>>
    /\ UNCHANGED <<ledgerFiles, resVars>>
    /\ UNCHANGED notSteps

\* the reconciliation pass that opens the tick rejects (lines 206-208, outside
\* the try block): runScheduledFetchTick, the loop and startBackgroundFetcher
\* reject in turn, and the command prints the error and exits with code 1
TickSyncFails ==
    /\ LoopRunning
    /\ fpc = "idle"
    /\ startPc' = [startPc EXCEPT ![LoopProc] = "none"]
    /\ UNCHANGED <<pidFile, signalled, refused, stopPc, stopPid, statusFile, statusReply>>
    /\ UNCHANGED notStart

TickFailNext ==
    \/ StartCheck(LoopProc)
    \/ StartWritePid(LoopProc)
    \/ StartRunLoop(LoopProc)
    \/ TickBegin
    \/ \E fetched \in FetchedBatches : TickFetchReturns(fetched)
    \/ TickFetchFails
    \/ TickIngest
    \/ TickEnd
    \/ TickSyncFails

SpecTickFail == StepsInit /\ [][TickFailNext]_vars

LedgerInit ==
    /\ counter0 \in 0..1
    /\ counterFile = counter0
    /\ mapFile \in {EmptyMap} \cup {MapSet(EmptyMap, i, l) : i \in 1..counter0, l \in LedgerLocs}
    /\ LprocIdle
    /\ LocksIdle
    /\ SizeIdle
    /\ DirsIdle
    /\ EmptyReservoir
    /\ chanCfg = [ch \in Channels |-> DefaultConfig]
    /\ maxSize = 0
    /\ BackgroundIdle

LedgerNext ==
    \E p \in Procs :
        \/ \E c \in LedgerCalls : LCall(p, c)
        \/ LAcquire(p)
        \/ LTimeout(p)
        \/ LReadMap(p)
        \/ LReadCounter(p)
        \/ LWriteCounter(p)
        \/ LWriteMap(p)
        \/ LBump(p)
        \/ LRelease(p)

SpecLedger == LedgerInit /\ [][LedgerNext]_vars

\* acquireLock's loop tries again every LOCK_RETRY_DELAY_MS and gives up at the
\* deadline: a waiting call does one or the other
SpecLedgerWait ==
    /\ LedgerInit
    /\ [][LedgerNext]_vars
    /\ \A p \in Procs : WF_vars(LAcquire(p) \/ LTimeout(p))

\* ------------------------------------------------------------------------
\* The ledger when the guarded action throws or the holder's process dies
\* (SpecLedgerDeath)
\* ------------------------------------------------------------------------
\* the action passed to withLock throws (a file it reads or writes fails):
\* the finally block removes the lock file and the call ends with the error
LThrow(p) ==
    /\ lpc[p] \in {"rdmap", "rdctr", "wrctr", "wrmap", "bump"}
    /\ lockFile' = FALSE
    /\ lpc' = [lpc EXCEPT ![p] = "idle"]
    /\ lcall' = [lcall EXCEPT ![p] = NoCall]
    /\ ltmp' = [ltmp EXCEPT ![p] = NoTmp]
    /\ UNCHANGED <<counterFile, mapFile, ncalls, allocLog, hwm, allocOnly, counter0>>
    /\ UNCHANGED notLedger

\* the process is killed between acquireLock and release(): no finally block
\* runs, and nothing else removes the lock file
LDie(p) ==
    /\ lpc[p] \in {"rdmap", "rdctr", "wrctr", "wrmap", "bump", "rel"}
    /\ lpc' = [lpc EXCEPT ![p] = "dead"]
    /\ lcall' = [lcall EXCEPT ![p] = NoCall]
    /\ ltmp' = [ltmp EXCEPT ![p] = NoTmp]
    /\ UNCHANGED <<counterFile, mapFile, lockFile, ncalls, allocLog, hwm, allocOnly,
                   counter0>>
    /\ UNCHANGED notLedger

LedgerDeathNext ==
    \/ LedgerNext
    \/ \E p \in Procs : LThrow(p)
    \/ \E p \in Procs : LDie(p)

SpecLedgerDeath == LedgerInit /\ [][LedgerDeathNext]_vars

\* ------------------------------------------------------------------------
\* Claims
\* ------------------------------------------------------------------------

\* C1: while only allocating calls (nextId, or assignIdToFile on locations not
\* yet bound) have been issued, by any number of concurrent processes, the
\* identifiers returned are pairwise distinct and are exactly the consecutive
\* integers directly above the initial counter value.
C1_ConsecutiveDistinctIds ==
    allocOnly => \A i \in 1..Len(allocLog) : allocLog[i].id = counter0 + i

\* C1 witness: one allocating call has returned, a second (assignIdToFile) is
\* about to return the next identifier while holding the lock, and another
\* process is waiting for the lock inside nextId.
C1_Witness ==
    /\ allocOnly
    /\ Len(allocLog) >= 1
    /\ \E p, q \in Procs :
          /\ lpc[p] = "rel" /\ lcall[p].op = "assign" /\ ltmp[p].res = counter0 + 2
          /\ lpc[q] = "acq" /\ lcall[q].op = "next"

\* C3: every identifier handed out by nextId or newly allocated by
\* assignIdToFile is strictly greater than every identifier allocated or bound
\* by a call that returned earlier.
C3_StrictlyIncreasing ==
    \A i \in 1..Len(allocLog) : allocLog[i].id > allocLog[i].hw

\* C3 witness: an identifier was handed out after setMapping had bound a larger
\* identifier than the allocations before it had reached.
C3_Witness ==
    \E i \in 1..Len(allocLog) :
        /\ allocLog[i].hw > counter0 + (i - 1)
        /\ allocLog[i].id > allocLog[i].hw

\* C4: in every reachable state of the ledger no file location is bound to
\* more than one identifier (an identifier is bound to one location by
\* construction: the map file is a function).
C4_OneIdPerLocation ==
    \A i, j \in DOMAIN mapFile : mapFile[i] = mapFile[j] => i = j

\* ------------------------------------------------------------------------
\* Claims about the reservoir operations (Spec)
\* ------------------------------------------------------------------------
\* the records of channel ch whose file exists
TrackedDocs(meta, map, fs, ch) ==
    {i \in 1..Len(meta[ch]) : Exists(fs, ResolvePath(meta[ch][i], map))}

\* the total size is above a configured budget
OverBudget == maxSize > 0 /\ CurrentSize(files) > maxSize

\* C2: evict() never deletes a document whose lock set is non-empty: every
\* record that holds a lock and has its file before a clean() step still has
\* the file, and the same record with the same lock set, after it.
C2_EvictionSparesLocked ==
    [][Clean =>
        \A ch \in Channels : \A i \in TrackedDocs(metadata, mapFile, files, ch) :
            Len(metadata[ch][i].locks) > 0 =>
                /\ files'[ResolvePath(metadata[ch][i], mapFile)]
                       = files[ResolvePath(metadata[ch][i], mapFile)]
                /\ \E j \in 1..Len(metadata'[ch]) : metadata'[ch][j] = metadata[ch][i]]_vars

\* C2 witness: an eviction has run over a reservoir that held a locked and an
\* unlocked document: the unlocked one is gone (its ledger binding is all that
\* is left of it), the locked one is still there although the budget is still
\* exceeded.
C2_Witness ==
    /\ OverBudget
    /\ \E id \in DOMAIN mapFile :
          /\ ~Exists(files, mapFile[id])
          /\ \A ch \in Channels : \A i \in 1..Len(metadata[ch]) : metadata[ch][i].id # id
    /\ \E ch \in Channels : \E i \in TrackedDocs(metadata, mapFile, files, ch) :
          Len(metadata[ch][i].locks) > 0

\* the records of channel ch whose file exists and carries content-key value v
DocsWithKey(meta, map, fs, ch, v) ==
    {i \in TrackedDocs(meta, map, fs, ch) : fs[ResolvePath(meta[ch][i], map)].idv = v}

LastItemWithKey(fetched, v) ==
    CHOOSE k \in 1..Len(fetched) :
        fetched[k].idv = v /\ \A j \in 1..Len(fetched) : fetched[j].idv = v => j <= k

\* C5: when a source with duplicate policy overwrite and a content-key field
\* already holds a document with content-key value v, fetching an item with
\* that value again leaves exactly one document with that value: same
\* identifier, same location, the content of the last such item fetched, a
\* later fetch timestamp and the lock set it held before the fetch.
C5_OverwriteKeepsOneDocument ==
    [][\A ch \in Channels, fetched \in FetchedBatches, v \in FieldValues :
        ( /\ chanCfg[ch].dup = "overwrite"
          /\ chanCfg[ch].idField
          /\ DocsWithKey(metadata, mapFile, files, ch, v) # {}
          /\ \E k \in 1..Len(fetched) : fetched[k].idv = v
          /\ FetchChannel(ch, fetched) )
        => \E j \in 1..Len(metadata'[ch]) :
              /\ DocsWithKey(metadata', mapFile', files', ch, v) = {j}
              /\ \A i \in DocsWithKey(metadata, mapFile, files, ch, v) :
                    /\ metadata'[ch][j].id = metadata[ch][i].id
                    /\ ResolvePath(metadata'[ch][j], mapFile') = ResolvePath(metadata[ch][i], mapFile)
                    /\ metadata'[ch][j].locks = metadata[ch][i].locks
                    /\ metadata'[ch][j].fetchedAt > metadata[ch][i].fetchedAt
              /\ metadata'[ch][j].fetchedAt = clock'
              /\ files'[ResolvePath(metadata'[ch][j], mapFile')].body
                    = fetched[LastItemWithKey(fetched, v)].body]_vars

\* C5 witness: the first document ever stored (identifier 1) carries the
\* content-key value, was locked by hand before it was fetched again, and now
\* still holds that lock and shows the timestamp
\* and the content of a second fetch, while no second identifier was handed out.
C5_Witness ==
    /\ chanCfg["c1"].dup = "overwrite" /\ chanCfg["c1"].idField
    /\ counterFile = 1
    /\ clock = 2
    /\ lockedOverwrite
    /\ \E j \in DocsWithKey(metadata, mapFile, files, "c1", "abc") :
          /\ metadata["c1"][j].id = 1
          /\ metadata["c1"][j].fetchedAt = 2
          /\ metadata["c1"][j].locks = <<"w">>
          /\ files[ResolvePath(metadata["c1"][j], mapFile)].body = "v2"

\* ------------------------------------------------------------------------
\* Claims about the steps of a fetch and of a reconciliation pass (SpecSteps)
\* ------------------------------------------------------------------------
RecordsOf(ch, id) == {i \in 1..Len(metadata[ch]) : metadata[ch][i].id = id}

\* C6: once a fetch and a reconciliation pass of another process that ran
\* during it have both completed, every document the fetch persisted has its
\* file, a ledger binding to that file and exactly one metadata record, and
\* every document tracked before whose file still exists has kept its record,
\* its identifier and its lock set.
C6_SyncSafeWithFetch ==
    (fpc = "done" /\ spc = "done") =>
        /\ \A k \in 1..Len(fmem.persisted) :
              /\ fmem.persisted[k] \in DOMAIN mapFile
              /\ Exists(files, mapFile[fmem.persisted[k]])
              /\ Cardinality(RecordsOf(FetchedChannel, fmem.persisted[k])) = 1
        /\ \A d \in fmem.before :
              Exists(files, d.path) =>
                 /\ d.id \in DOMAIN mapFile
                 /\ mapFile[d.id] = d.path
                 /\ \E i \in RecordsOf(d.ch, d.id) : metadata[d.ch][i].locks = d.locks

\* C7: after the fetching process died inside fetchChannel and one
\* reconciliation pass has run, every ledger binding and every metadata
\* record refers to a file that exists, and every document file has exactly
\* one identifier and exactly one metadata record.
C7_SyncRecoversFromCrash ==
    spc = "recovered" =>
        /\ \A id \in DOMAIN mapFile : Exists(files, mapFile[id])
        /\ \A ch \in Channels : \A i \in 1..Len(metadata[ch]) :
              Exists(files, ResolvePath(metadata[ch][i], mapFile))
        /\ \A p \in Paths :
              Exists(files, p) =>
                 /\ Cardinality({id \in DOMAIN mapFile : mapFile[id] = p}) = 1
                 /\ Cardinality({i \in 1..Len(metadata[ChannelOf(p)]) :
                                    ResolvePath(metadata[ChannelOf(p)][i], mapFile) = p}) = 1

\* ------------------------------------------------------------------------
\* Claims about the background fetcher (SpecStart, SpecSched)
\* ------------------------------------------------------------------------
\* C8: at most one scheduler runs per reservoir at any time: no two processes
\* are inside the scheduler loop together.
C8_AtMostOneScheduler ==
    Cardinality({p \in Procs : startPc[p] = "loop"}) <= 1

\* the source is due at time t: no fetchChannel was invoked for it yet, or
\* the last one was at least max(refreshInterval, rateLimitInterval) ago
DueAt(ch, t) ==
    \/ attemptedAt[ch] = NoTime
    \/ t - attemptedAt[ch]
          >= Max(schedCfg[ch].refreshInterval, schedCfg[ch].rateLimitInterval) * 1000

\* C9: in each tick a source's fetchChannel is invoked if and only if it is
\* due, and the tick records the attempt time of every source it invokes,
\* whether the fetch then succeeds or fails.
C9_AttemptIffDue ==
    [][\A gap \in TickGapsMs, failing \in SUBSET Channels :
        Tick(gap, failing) =>
            \A ch \in Channels :
                /\ (ch \in sched'.invoked) <=> DueAt(ch, lastTickMs')
                /\ (ch \in sched'.invoked) => sched'.lastAttemptAt[ch] = lastTickMs']_vars

\* C9 witness: a source with refresh interval 1 s and rate limit 3 s failed,
\* and a tick that came at least 1 s but less than 3 s later left it alone.
C9_Witness ==
    /\ schedCfg["c1"] = [refreshInterval |-> 1, rateLimitInterval |-> 3]
    /\ sched.lastError["c1"] = "error"
    /\ attemptedAt["c1"] # NoTime
    /\ lastTickMs - attemptedAt["c1"] >= 1000
    /\ lastTickMs - attemptedAt["c1"] < 3000
    /\ "c1" \notin sched.invoked

\* C10: within one tick a failing source does not keep any other due source
\* from being attempted, its failure is recorded for it, and the tick ends
\* normally.
C10_FailureIsolated ==
    [][\A gap \in TickGapsMs, failing \in SUBSET Channels :
        Tick(gap, failing) =>
            /\ ~sched'.thrown
            /\ schedPc' = "running"
            /\ \A ch \in Channels : DueAt(ch, lastTickMs') => ch \in sched'.invoked
            /\ \A ch \in failing : DueAt(ch, lastTickMs') => sched'.lastError[ch] = "error"]_vars

\* C10 witness: in the last tick the first source failed and the second one
\* was fetched all the same.
C10_Witness ==
    /\ schedPc = "running"
    /\ sched.invoked = {"c1", "c2"}
    /\ sched.lastError["c1"] = "error"
    /\ sched.lastAttemptAt["c1"] = lastTickMs
    /\ sched.lastError["c2"] = ""
    /\ sched.lastFetchAt["c2"] = lastTickMs

\* ------------------------------------------------------------------------
\* Claims about eviction (Spec)
\* ------------------------------------------------------------------------
\* the documents without a lock: <<channel, index>> of the records whose lock
\* list is empty and whose file exists
UnlockedDocs(meta, map, fs) ==
    {d \in Channels \X (1..MaxCounter) :
        /\ d[2] \in TrackedDocs(meta, map, fs, d[1])
        /\ Len(meta[d[1]][d[2]].locks) = 0}

DocPath(meta, map, d) == ResolvePath(meta[d[1]][d[2]], map)

\* an identifier the ledger still binds to a missing file and no record names:
\* what clean() leaves of a document it deleted
EvictedIds ==
    {id \in DOMAIN mapFile :
        /\ ~Exists(files, mapFile[id])
        /\ \A ch \in Channels : \A i \in 1..Len(metadata[ch]) : metadata[ch][i].id # id}

\* C11: clean() deletes only while the total size exceeds the budget: with no
\* budget, or a size within it, it changes no file and no metadata; otherwise
\* it ends with the size within the budget or with no unlocked document
\* left, and the size before its last deletion was still above the budget.
C11_EvictOnlyWhileOverBudget ==
    [][Clean =>
        /\ ~OverBudget => (files' = files /\ metadata' = metadata)
        /\ OverBudget =>
              /\ \/ CurrentSize(files') <= maxSize
                 \/ UnlockedDocs(metadata', mapFile', files') = {}
              /\ files' # files =>
                    \E p \in Paths :
                        /\ Exists(files, p) /\ ~Exists(files', p)
                        /\ CurrentSize(files') + FileSize(files[p]) > maxSize]_vars

\* C11 witness: an eviction has deleted a document and stopped with the size
\* exactly at the budget, leaving an unlocked document in place.
C11_Witness ==
    /\ maxSize > 0
    /\ CurrentSize(files) = maxSize
    /\ EvictedIds # {}
    /\ UnlockedDocs(metadata, mapFile, files) # {}

\* C12: clean() deletes oldest first across all sources: when it deletes an
\* unlocked document, every unlocked document with an earlier fetch timestamp
\* is deleted too.
C12_EvictOldestFirst ==
    [][Clean =>
        \A d, e \in UnlockedDocs(metadata, mapFile, files) :
            ( /\ metadata[d[1]][d[2]].fetchedAt < metadata[e[1]][e[2]].fetchedAt
              /\ ~Exists(files', DocPath(metadata, mapFile, e)) )
            => ~Exists(files', DocPath(metadata, mapFile, d))]_vars

\* C12 witness: the first document was stored in the second source and has
\* been evicted, while the younger unlocked document of the first source is
\* still in place.
C12_Witness ==
    /\ maxSize > 0
    /\ 1 \in EvictedIds
    /\ ChannelOf(mapFile[1]) = "c2"
    /\ \E d \in UnlockedDocs(metadata, mapFile, files) :
          /\ d[1] = "c1"
          /\ metadata[d[1]][d[2]].id = 2
          /\ metadata[d[1]][d[2]].fetchedAt = 2
\* ------------------------------------------------------------------------
\* Claims about the reconciliation pass (SpecSync)
\* ------------------------------------------------------------------------
\* C13: a second sync() right after a sync(), with no change on disk in
\* between, writes no metadata: in the state a pass leaves, a further pass
\* finds nothing to drop and nothing to repair in any channel.
C13_SecondSyncWritesNothing ==
    [][Sync => SyncWrites(mapFile', metadata', files') = {}]_vars

\* a record of channel c1 whose stored location lies in the directory of c2:
\* no fetch stores such a location, only the repair of a pass does
RepairedRecords ==
    {i \in 1..Len(metadata["c1"]) : ChannelOf(metadata["c1"][i].filePath) = "c2"}

\* identifiers handed out whose binding and record are both gone
DroppedIds ==
    {id \in 1..counterFile :
        /\ id \notin DOMAIN mapFile
        /\ \A ch \in Channels : \A i \in 1..Len(metadata[ch]) : metadata[ch][i].id # id}

\* C13 witness: a pass has dropped one document's binding and record and
\* repaired the stored location of another, and nothing is left for a
\* second pass to write.
C13_Witness ==
    /\ DroppedIds # {}
    /\ RepairedRecords # {}
    /\ SyncWrites(mapFile, metadata, files) = {}

\* C14: after a sync() every ledger binding points to a file that exists,
\* every metadata record resolves (through the ledger, else through its
\* stored location) to a file that exists, and the stored location of every
\* record whose identifier the ledger binds equals that binding.
C14_SyncLeavesConsistentTracking ==
    [][Sync =>
        /\ \A id \in DOMAIN mapFile' : Exists(files', mapFile'[id])
        /\ \A ch \in Channels : \A i \in 1..Len(metadata'[ch]) :
              /\ Exists(files', ResolvePath(metadata'[ch][i], mapFile'))
              /\ metadata'[ch][i].id \in DOMAIN mapFile' =>
                    metadata'[ch][i].filePath = mapFile'[metadata'[ch][i].id]]_vars

\* C14 witness: the first document's file was deleted and a pass has dropped
\* its binding and its record, and the second document, re-bound to a file in
\* the other channel's directory, has had its stored location repaired.
C14_Witness ==
    /\ counterFile = 2
    /\ 1 \in DroppedIds
    /\ \E i \in RepairedRecords :
          /\ metadata["c1"][i].id = 2
          /\ mapFile[2] = metadata["c1"][i].filePath
          /\ Exists(files, mapFile[2])

\* C15: a sync() brings every untracked file under tracking: every document
\* file in a source's directory has, after the pass, an identifier bound to it
\* and a metadata record of that source, and the record of a file that had
\* none before carries the source's auto-apply lock set.
C15_SyncTracksUntrackedFiles ==
    [][Sync =>
        \A p \in Paths :
            Exists(files', p) =>
                /\ \E id \in DOMAIN mapFile' : mapFile'[id] = p
                /\ \E i \in 1..Len(metadata'[ChannelOf(p)]) :
                      /\ ResolvePath(metadata'[ChannelOf(p)][i], mapFile') = p
                      /\ (\A j \in 1..Len(metadata[ChannelOf(p)]) :
                              ResolvePath(metadata[ChannelOf(p)][j], mapFile) # p)
                          => metadata'[ChannelOf(p)][i].locks = chanCfg[ChannelOf(p)].retainedLocks]_vars
\* ------------------------------------------------------------------------
\* Claims about retain and release (SpecRange)
\* ------------------------------------------------------------------------
\* the channels a range call names: the one given, else all
CandidateChannels(c) == IF c.ch = NoChannel THEN Channels ELSE {c.ch}

\* the identifiers of the records of those channels, as texts
CandidateIdTexts(meta, c) ==
    UNION {{ToString(meta[ch][i].id) : i \in 1..Len(meta[ch])} : ch \in CandidateChannels(c)}

\* the call names a boundary that is no candidate's identifier or no number,
\* or boundaries that cross
RangeCallFails(meta, c) ==
    \/ \E b \in {c.from, c.to} :
          b # NoBound /\ (IsNaN(b) \/ b \notin CandidateIdTexts(meta, c))
    \/ /\ c.from # NoBound /\ c.to # NoBound
       /\ ~IsNaN(c.from) /\ ~IsNaN(c.to)
       /\ ToNumber(c.from) > ToNumber(c.to)

\* C16: a retainRange/releaseRange call that names a boundary which is not
\* the identifier of a candidate document or not a number, or whose from
\* exceeds its to, throws, changes no lock list and writes no metadata.
C16_FailedRangeChangesNothing ==
    [][(RangeReturn /\ RangeCallFails(metadata, lockCall)) =>
          /\ metadata' = metadata
          /\ ~lockResult'.ok]_vars

\* the records (channel, index) an accepted range call covers
RangeDocs(meta, c) ==
    {d \in CandidateChannels(c) \X (1..MaxCounter) :
        /\ d[2] <= Len(meta[d[1]])
        /\ c.from # NoBound => meta[d[1]][d[2]].id >= ToNumber(c.from)
        /\ c.to # NoBound => meta[d[1]][d[2]].id <= ToNumber(c.to)}

SetOf(seq) == {seq[k] : k \in 1..Len(seq)}

\* C16 witness: a range call has thrown because its upper boundary is no
\* candidate's identifier, and the reservoir holds a document that carries no
\* lock.
C16_Witness ==
    /\ lockCall = NoLockCall
    /\ lockResult = Thrown("End ID not found")
    /\ \E ch \in Channels : \E i \in 1..Len(metadata[ch]) : Len(metadata[ch][i].locks) = 0

\* C17: a successful retainRange/releaseRange adds (removes) the lock name on
\* exactly the records of the candidate channels whose identifier lies in
\* [from, to], leaves every other name and every other record as it was, and
\* returns the number of those records.
C17_RangeCoversExactlyTheRange ==
    [][(RangeReturn /\ lockResult'.ok) =>
          /\ lockResult'.count = Cardinality(RangeDocs(metadata, lockCall))
          /\ \A ch \in Channels :
                /\ Len(metadata'[ch]) = Len(metadata[ch])
                /\ \A i \in 1..Len(metadata[ch]) :
                      IF <<ch, i>> \in RangeDocs(metadata, lockCall)
                      THEN /\ [metadata'[ch][i] EXCEPT !.locks = <<>>]
                                = [metadata[ch][i] EXCEPT !.locks = <<>>]
                           /\ SetOf(metadata'[ch][i].locks) =
                                IF lockCall.retain
                                THEN SetOf(metadata[ch][i].locks) \cup {LockName(lockCall.name)}
                                ELSE SetOf(metadata[ch][i].locks) \ {LockName(lockCall.name)}
                      ELSE metadata'[ch][i] = metadata[ch][i]]_vars

\* C17 witness: a range call has returned 1 on a reservoir of two documents;
\* the first document holds the global lock and the second does not.
C17_Witness ==
    /\ lockCall = NoLockCall
    /\ lockResult = Returned(1)
    /\ \E ch1, ch2 \in Channels : \E i \in 1..Len(metadata[ch1]), j \in 1..Len(metadata[ch2]) :
          /\ metadata[ch1][i].id = 1
          /\ metadata[ch2][j].id = 2
          /\ GLOBAL_LOCK_NAME \in SetOf(metadata[ch1][i].locks)
          /\ GLOBAL_LOCK_NAME \notin SetOf(metadata[ch2][j].locks)

\* the record a retainContent/releaseContent call changes
TargetOf(meta, id) == meta[FindItemChannel(meta, id)][FirstIndexOf(meta[FindItemChannel(meta, id)], id)]

\* C18: lock lists behave as sets: retaining a name a document already holds
\* leaves its lock list as it is, a retained name occurs in the list once,
\* and releasing a name the document does not hold leaves the list as it is.
C18_LockSetSemantics ==
    [][(ContentLockReturn /\ lockResult'.ok) =>
          LET n == LockName(lockCall.name)
              before == TargetOf(metadata, lockCall.id).locks
              after == TargetOf(metadata', lockCall.id).locks
          IN  /\ (lockCall.retain /\ n \in SetOf(before)) => after = before
              /\ lockCall.retain => Cardinality({k \in 1..Len(after) : after[k] = n}) = 1
              /\ (~lockCall.retain /\ n \notin SetOf(before)) => after = before]_vars

\* C18 witness: a document holds two lock names, each retained by a call of
\* its own, and the last retainContent call has returned.
C18_Witness ==
    /\ lockCall = NoLockCall
    /\ lockResult = Returned(0)
    /\ \E i \in 1..Len(metadata["c1"]) :
          SetOf(metadata["c1"][i].locks) = {GLOBAL_LOCK_NAME, "w"}
\* ------------------------------------------------------------------------
\* Claims about the sources' lock sets and about lock names (SpecLocks)
\* ------------------------------------------------------------------------
IdsOf(items) == {items[i].id : i \in 1..Len(items)}

C20_NoCommaInStoredLockNames ==
    /\ \A ch \in Channels : \A k \in 1..Len(chanCfg[ch].retainedLocks) :
          ~IncludesComma(chanCfg[ch].retainedLocks[k])
    /\ \A ch \in Channels : \A i \in 1..Len(metadata[ch]) :
          \A k \in 1..Len(metadata[ch][i].locks) : ~IncludesComma(metadata[ch][i].locks[k])

\* C20 witness: a source and a document each hold two lock names, taken from
\* calls that passed them.
C20_Witness ==
    /\ \E ch \in Channels : Len(chanCfg[ch].retainedLocks) = 2
    /\ \E ch \in Channels : \E i \in 1..Len(metadata[ch]) : Len(metadata[ch][i].locks) = 2

\* ------------------------------------------------------------------------
\* Claims about the storing of fetched items (Spec)
\* ------------------------------------------------------------------------
\* existingByDedupeKey as fetchChannel(ch) builds it over the current disk
ExistingAtFetch(ch) ==
    LET synced == SyncContentTracking(mapFile, metadata, files)
    IN  BuildExistingContentByDedupeKey(synced.meta[ch], synced.map, files, chanCfg[ch].idField)

\* identifier id is in the ledger or in a record of some source
IdInUse(id) ==
    \/ id \in DOMAIN mapFile
    \/ \E ch \in Channels : \E i \in 1..Len(metadata[ch]) : metadata[ch][i].id = id

\* C21: under keep-both, or when no existing document matches the dedup key,
\* a fetched item is written to <base>-<n> for the smallest n whose file name
\* is free in the source's directory (n = 0: no suffix), no other file
\* changes, the location gets an identifier that was not in use, and the
\* item's record carries that identifier, the location and the source's
\* auto-apply lock set.
C21_NewDocumentGetsFreshNameAndId ==
    [][\A ch \in Channels, fetched \in IngestBatches :
        ( /\ Len(fetched) = 1
          /\ \/ chanCfg[ch].dup = "keep-both"
             \/ ResolveDedupeKeyForFetchedItem(fetched[1], chanCfg[ch].idField)
                    \notin DOMAIN ExistingAtFetch(ch)
          /\ FetchChannel(ch, fetched) )
        => \E n \in 0..MaxSuffix :
              LET p == <<ch, Slug(ContentFileStemForFetchedItem(fetched[1])), n>>
              IN  /\ files[p] = NoFile
                  /\ \A m \in 0..(n - 1) : files[<<ch, p[2], m>>] # NoFile
                  /\ files' = [files EXCEPT ![p] = [idv |-> fetched[1].idv,
                                                    body |-> fetched[1].body]]
                  /\ \E id \in DOMAIN mapFile' :
                        /\ mapFile'[id] = p
                        /\ ~IdInUse(id)
                        /\ id > counterFile
                        /\ \E j \in 1..Len(metadata'[ch]) :
                              metadata'[ch][j] = [id |-> id,
                                                  locks |-> chanCfg[ch].retainedLocks,
                                                  fetchedAt |-> clock',
                                                  filePath |-> p]]_vars

\* C21 witness: the keep-both source c2 was fetched twice with a file name
\* whose slug is a: it holds a.md with the first content and a-1.md with the second, bound
\* to the identifiers 1 and 2, each with the source's auto-apply lock.
C21_Witness ==
    /\ chanCfg["c2"].dup = "keep-both"
    /\ files[<<"c2", "a", 0>>] # NoFile /\ files[<<"c2", "a", 0>>].body = "v1"
    /\ files[<<"c2", "a", 1>>] # NoFile /\ files[<<"c2", "a", 1>>].body = "v2"
    /\ mapFile = (1 :> <<"c2", "a", 0>>) @@ (2 :> <<"c2", "a", 1>>)
    /\ Len(metadata["c2"]) = 2
    /\ metadata["c2"][1] = [id |-> 1, locks |-> <<"w">>, fetchedAt |-> 1,
                            filePath |-> <<"c2", "a", 0>>]
    /\ metadata["c2"][2] = [id |-> 2, locks |-> <<"w">>, fetchedAt |-> 2,
                            filePath |-> <<"c2", "a", 1>>]

\* the tracked documents of ch that a fetch of an item with this file name
\* stored: their file name is the item's base name, with or without a suffix,
\* and their content does not expose the content-key field
StoredUnder(ch, item) ==
    {i \in TrackedDocs(metadata, mapFile, files, ch) :
        LET p == ResolvePath(metadata[ch][i], mapFile)
        IN  /\ p[2] = Slug(ContentFileStemForFetchedItem(item))
            /\ FieldValue(files[p], chanCfg[ch].idField) = ""}

\* C22: in an overwrite source, fetching an item that exposes no content-key
\* value (none configured, or none in the item) when the source already holds
\* a document stored from an item with the same file name (or from an unnamed
\* item, for an unnamed item) leaves the number of documents as it was: the
\* item replaces the content of such a document.
C22_FilenameDedupeKeepsOneDocument ==
    [][\A ch \in Channels, fetched \in IngestBatches :
        ( /\ Len(fetched) = 1
          /\ chanCfg[ch].dup = "overwrite"
          /\ FieldValue(fetched[1], chanCfg[ch].idField) = ""
          /\ StoredUnder(ch, fetched[1]) # {}
          /\ FetchChannel(ch, fetched) )
        => /\ Cardinality(TrackedDocs(metadata', mapFile', files', ch))
                 = Cardinality(TrackedDocs(metadata, mapFile, files, ch))
           /\ \E i \in StoredUnder(ch, fetched[1]) :
                 files'[ResolvePath(metadata[ch][i], mapFile)].body = fetched[1].body]_vars

\* ------------------------------------------------------------------------
\* More claims about the identifier ledger (SpecLedger)
\* ------------------------------------------------------------------------
\* the location is bound to an identifier in the map file
Bound(loc) == \E i \in DOMAIN mapFile : mapFile[i] = loc

\* C23: assignIdToFile(location) on a location that is bound returns the
\* identifier bound to it and writes neither the counter nor the map, so a
\* second call on a location whose binding still stands returns the same
\* identifier and does not advance the counter again; on a location that is
\* not bound it advances the counter by one and binds the new counter value,
\* an identifier the map did not hold, to the location, and returns it.
C23_AssignReturnsBoundOrAllocates ==
    [][\A p \in Procs : lcall[p].op = "assign" =>
          /\ LWriteCounter(p) =>
                /\ ~Bound(lcall[p].loc)
                /\ counterFile' = ReadCurrentValue(counterFile) + 1
          /\ LWriteMap(p) =>
                /\ ~Bound(lcall[p].loc)
                /\ counterFile \notin DOMAIN mapFile
                /\ mapFile' = MapSet(mapFile, counterFile, lcall[p].loc)
          /\ LRelease(p) =>
                /\ ltmp[p].res \in DOMAIN mapFile
                /\ ltmp[p].res = FindIdByFileInMap(mapFile, lcall[p].loc)]_vars

\* C23 witness: two calls were issued, both assignIdToFile on the same
\* location: the first allocated identifier 1 on an empty ledger, the second
\* is about to return 1 as well, and the counter still reads 1.
C23_Witness ==
    /\ counter0 = 0 /\ ncalls = 2
    /\ Len(allocLog) = 1 /\ allocLog[1].id = 1
    /\ counterFile = 1
    /\ \E p \in Procs :
          /\ lpc[p] = "rel" /\ lcall[p].op = "assign"
          /\ ltmp[p].res = 1
          /\ mapFile = (1 :> lcall[p].loc)

\* the processes inside the guarded action of a ledger call
Holders == {p \in Procs : lpc[p] \notin {"idle", "acq"}}

\* C24: a ledger call that finds the lock held until its deadline ends with
\* the timeout error: the lock is held by another caller, the call ends
\* without a result and the counter and the map are as they were; the counter
\* and the map are read and written only by the one caller that holds the
\* lock; and a waiting call does not wait forever.
C24_LockTimeoutAborts ==
    /\ [](Cardinality(Holders) <= 1 /\ (lockFile <=> Holders # {}))
    /\ [][\A p \in Procs :
            /\ LTimeout(p) =>
                  /\ \E q \in Holders : q # p
                  /\ lpc'[p] = "idle" /\ lcall'[p] = NoCall
                  /\ allocLog' = allocLog
                  /\ counterFile' = counterFile /\ mapFile' = mapFile
            /\ (lpc[p] \in {"idle", "acq"} /\ lpc'[p] # lpc[p]) =>
                  counterFile' = counterFile /\ mapFile' = mapFile]_vars
    /\ \A p \in Procs : (lpc[p] = "acq") ~> (lpc[p] # "acq")

\* C24 witness: two allocating calls were issued on an empty ledger; one is
\* inside its guarded action, the other has ended without handing out an
\* identifier, which an allocating call does only on a timeout.
C24_Witness ==
    /\ ncalls = 2 /\ allocOnly /\ allocLog = <<>>
    /\ counterFile = counter0 /\ mapFile = EmptyMap
    /\ \E p, q \in Procs :
          /\ lpc[p] = "idle" /\ lcall[p] = NoCall
          /\ q \in Holders /\ lockFile

\* ------------------------------------------------------------------------
\* More claims about the background fetcher (SpecSched, SpecStart)
\* ------------------------------------------------------------------------
\* C25: for every source a tick attempts: when the fetch succeeds its fetch
\* timestamp becomes the time of the attempt and its stored error is cleared;
\* when the fetch fails the error message is stored for it and its fetch
\* timestamp stays what it was.  A source the tick does not attempt keeps both.
C25_SuccessAndFailureRecorded ==
    [][\A gap \in TickGapsMs, failing \in SUBSET Channels :
        Tick(gap, failing) =>
            \A ch \in Channels :
                /\ (ch \in sched'.invoked /\ ch \notin failing) =>
                      /\ sched'.lastFetchAt[ch] = lastTickMs'
                      /\ sched'.lastError[ch] = ""
                /\ (ch \in sched'.invoked /\ ch \in failing) =>
                      /\ sched'.lastError[ch] = "error"
                      /\ sched'.lastFetchAt[ch] = sched.lastFetchAt[ch]
                /\ ch \notin sched'.invoked =>
                      /\ sched'.lastError[ch] = sched.lastError[ch]
                      /\ sched'.lastFetchAt[ch] = sched.lastFetchAt[ch]]_vars

\* C25 witness: the last tick attempted both sources; the first one, fetched
\* in an earlier tick, failed this time and keeps the earlier fetch timestamp
\* next to its error; the second one succeeded and has no error.
C25_Witness ==
    /\ sched.invoked = {"c1", "c2"}
    /\ sched.lastError["c1"] = "error"
    /\ sched.lastFetchAt["c1"] # NoTime
    /\ sched.lastFetchAt["c1"] < lastTickMs
    /\ sched.lastError["c2"] = ""
    /\ sched.lastFetchAt["c2"] = lastTickMs

\* the pid file names a process that is gone
StaleMarker == pidFile # NoPid /\ ~IsProcessRunning(startPc, pidFile)

\* C26: a status query that finds the pid file naming a dead process removes
\* the pid file and reports "not running", and so does a stop request that
\* finds the process it read from the pid file dead.
C26_StaleMarkerRemovedByStatusOrStop ==
    [][/\ (StatusQuery /\ StaleMarker) =>
             pidFile' = NoPid /\ statusReply' = "not running"
       /\ (StopSignal /\ ~IsProcessRunning(startPc, stopPid)) =>
             pidFile' = NoPid /\ stopPc' = "none"]_vars

C28_TerminationWaitsForIngest ==
    [][\A p \in Procs :
          (startPc[p] = "loop" /\ signalled[p] /\ startPc'[p] = "none")
              => fpc = "idle"]_vars

\* the locations under a channel's content root that hold a file
FilesOf(fs, ch) == {p \in Paths : p[1] = ch /\ fs[p] # NoFile}

\* C29: after deleteChannel returns, the channel's configuration, its item
\* metadata and every document file under it are gone from disk.
C29_DeleteRemovesSubtree ==
    [][\A ch \in Channels :
          DeleteChannel(ch) =>
              /\ ~ChannelExists(chanCfg', ch)
              /\ metadata'[ch] = <<>>
              /\ FilesOf(files', ch) = {}]_vars

\* C30: setMaxSizeMB with a budget lower than the configured one returns with
\* the new budget saved and the eviction postcondition for it: the size is
\* within the new budget or no unlocked document is left, and every locked
\* document is as it was; with a budget not lower than the configured one it
\* changes no file and no metadata; with a non-positive or non-finite value
\* it is rejected and budget, files and metadata are as before.
C30_SetMaxSizeEvictsOnLowering ==
    [][\A v \in RawSizes :
          SetMaxSizeMB(v) =>
              /\ InvalidSize(v) =>
                    /\ sizeResult' = "rejected"
                    /\ maxSize' = maxSize /\ files' = files /\ metadata' = metadata
              /\ ~InvalidSize(v) => (maxSize' = v.n /\ sizeResult' = "set")
              /\ (~InvalidSize(v) /\ maxSize # 0 /\ v.n < maxSize) =>
                    /\ \/ CurrentSize(files') <= v.n
                       \/ UnlockedDocs(metadata', mapFile', files') = {}
                    /\ \A ch \in Channels : \A i \in TrackedDocs(metadata, mapFile, files, ch) :
                          Len(metadata[ch][i].locks) > 0 =>
                              /\ files'[ResolvePath(metadata[ch][i], mapFile)]
                                     = files[ResolvePath(metadata[ch][i], mapFile)]
                              /\ \E j \in 1..Len(metadata'[ch]) : metadata'[ch][j] = metadata[ch][i]
              /\ (~InvalidSize(v) /\ maxSize # 0 /\ v.n >= maxSize) =>
                    (files' = files /\ metadata' = metadata)]_vars

\* C30 witness: the budget has been lowered to the smallest one over a
\* reservoir that held more: a document has been evicted, an unlocked one is
\* left and the size is within the new budget.
C30_Witness ==
    /\ sizeResult = "set"
    /\ maxSize = 1
    /\ EvictedIds # {}
    /\ CurrentSize(files) = 1
    /\ UnlockedDocs(metadata, mapFile, files) # {}

\* C31: a call that ends with a not-found or a validation error leaves the
\* channel configurations, the item metadata, the ledger and the document
\* files exactly as they were.
C31_RejectedCallChangesNothing ==
    [][(RejectCall /\ ~lockResult'.ok) =>
          /\ chanCfg' = chanCfg
          /\ schedCfg' = schedCfg
          /\ metadata' = metadata
          /\ ledgerFiles' = ledgerFiles
          /\ files' = files]_vars

\* the suffixed forms of a slug
SuffixedSlugs(base) == {base \o "-" \o ToString(n) : n \in 2..(MaxChannels + 1)}

\* C32: no two channel directories hold the same id, and addChannel adds one
\* channel whose id is the slug of its name or that slug with a numeric
\* suffix, an id no existing channel has, and leaves the configuration of
\* every existing channel as it was.
C32_ChannelIdsUnique ==
    /\ [](\A d, e \in channelDirs : (d.id = e.id \/ d.dir = e.dir) => d = e)
    /\ [][\A name \in ChannelNames :
             AddChannelDir(name) =>
                 \E new \in channelDirs' :
                     /\ channelDirs' = channelDirs \cup {new}
                     /\ new.id \notin {d.id : d \in channelDirs}
                     /\ new.dir \notin DirNames(channelDirs)
                     /\ new.id \in {ChannelDirectorySlug(name)}
                                    \cup SuffixedSlugs(ChannelDirectorySlug(name))
                     /\ new.name = name]_vars

\* C32 witness: three channels whose names have the same slug or the slug's
\* suffixed form: same-name, same-name-2 and, for the name that slugs to
\* same-name-2 itself, same-name-2-2.
C32_Witness ==
    /\ [dir |-> "same-name", id |-> "same-name", name |-> "Same Name"] \in channelDirs
    /\ [dir |-> "same-name-2", id |-> "same-name-2", name |-> " same name "] \in channelDirs
    /\ [dir |-> "same-name-2-2", id |-> "same-name-2-2", name |-> "Same Name 2"] \in channelDirs

\* C33: a retain or release that another process applied to a document while
\* its source was being ingested is still in effect when the ingest has
\* saved its metadata: the save changes the lock list of no record that is
\* in metadata.json before and after it.
C33_RetainDuringIngestKept ==
    [][FSave =>
          \A i \in 1..Len(metadata[FetchedChannel]) :
              \A j \in 1..Len(metadata'[FetchedChannel]) :
                  metadata'[FetchedChannel][j].id = metadata[FetchedChannel][i].id
                      => metadata'[FetchedChannel][j].locks = metadata[FetchedChannel][i].locks]_vars

\* every metadata record as <<source, index>>
AllRecords == {d \in Channels \X (1..MaxCounter) : d[2] <= Len(metadata[d[1]])}

\* C34: in every reachable state no identifier appears in two metadata
\* records, of one source or of two, and no document file is the resolved
\* location of two metadata records.
C34_IdentifiersGloballyUnique ==
    \A d, e \in AllRecords :
        (\/ metadata[d[1]][d[2]].id = metadata[e[1]][e[2]].id
         \/ ResolvePath(metadata[d[1]][d[2]], mapFile) = ResolvePath(metadata[e[1]][e[2]], mapFile))
            => d = e

\* C34 witness: two identifiers have been handed out, each source holds the
\* record of one document, and one of the two documents is locked.
C34_Witness ==
    /\ counterFile = 2
    /\ Cardinality(AllRecords) = 2
    /\ \A ch \in Channels : Len(metadata[ch]) = 1
    /\ \E d \in AllRecords : Len(metadata[d[1]][d[2]].locks) > 0

\* the processes that are inside the guarded action and alive
LiveHolders == {p \in Procs : lpc[p] \notin {"idle", "acq", "dead"}}

\* C35: the ledger's lock file is released on every exit path of the guarded
\* operation, an exception and the death of the holder included: the lock
\* file exists only while a live process is inside the guarded operation, so
\* no waiting call is kept out by a lock nobody will release.
C35_LockReleasedOnEveryExit ==
    lockFile => LiveHolders # {}

\* C36: a scheduler's shutdown handler removes the process marker only when
\* the marker names that scheduler: a marker that names another scheduler is
\* still there when the handler has run.
C36_ShutdownKeepsOtherMarker ==
    [][\A p \in Procs :
          (Shutdown(p) /\ pidFile \notin {p, NoPid}) => pidFile' = pidFile]_vars

\* C37: no failure inside a tick stops the scheduler: a scheduler that is in
\* its loop stays in its loop whatever fails, the reconciliation pass that
\* opens a tick included, and the process marker never names a scheduler
\* that has stopped.
C37_TickFailureKeepsSchedulerRunning ==
    /\ [][LoopRunning => LoopRunning']_vars
    /\ [](pidFile = LoopProc => startPc[LoopProc] # "none")

C39_AdapterFailurePersistsNothing ==
    [][\A ch \in Channels : FetchChannelFails(ch) =>
          /\ lockResult' = Thrown("fetch failed")
          /\ files' = files
          /\ counterFile' = counterFile
          /\ \A id \in DOMAIN mapFile' : id \in DOMAIN mapFile /\ mapFile'[id] = mapFile[id]
          /\ \A c \in Channels :
                /\ Len(metadata'[c]) <= Len(metadata[c])
                /\ metadata'[c] = SyncItems(metadata[c], RemoveStale(mapFile, files), files)]_vars

\* C39 witness: a document was stored and its file deleted by hand, and a
\* fetch whose fetcher rejected has left no file, no binding and no record,
\* with the counter where the first fetch put it.
C39_Witness ==
    /\ lockResult = Thrown("fetch failed")
    /\ counterFile = 1
    /\ clock = 1
    /\ mapFile = EmptyMap
    /\ \A p \in Paths : files[p] = NoFile
    /\ \A c \in Channels : metadata[c] = <<>>

\* C40: a restarted scheduler has the last-fetch times and last errors of the
\* status record and no recorded attempts; its first tick attempts a source
\* with a stored error even when that source's last attempt is less than its
\* poll interval back, and a successful retry clears the stored error.
C40_RestartRetriesFailedSource ==
    /\ [][Restart =>
            /\ sched'.lastAttemptAt = [ch \in Channels |-> NoTime]
            /\ sched'.lastFetchAt = sched.lastFetchAt
            /\ sched'.lastError = sched.lastError]_vars
    /\ [][\A gap \in TickGapsMs, failing \in SUBSET Channels, ch \in Channels :
            ( /\ Tick(gap, failing)
              /\ sched.lastAttemptAt = [c \in Channels |-> NoTime]
              /\ sched.lastError[ch] = "error" )
            => /\ ch \in sched'.invoked
               /\ ch \notin failing => sched'.lastError[ch] = ""
               /\ ch \notin failing => sched'.lastFetchAt[ch] = lastTickMs']_vars

\* C40 witness: the first source's attempt failed in the latest tick, the
\* scheduler was restarted straight after it, and the next tick can come
\* before the source's poll interval has passed.
C40_Witness ==
    /\ schedPc = "running"
    /\ sched.lastAttemptAt = [c \in Channels |-> NoTime]
    /\ sched.lastError["c1"] = "error"
    /\ attemptedAt["c1"] = lastTickMs
    /\ \E gap \in TickGapsMs :
          /\ gap < ChannelPollInterval(schedCfg["c1"]) * 1000
          /\ lastTickMs + gap <= MaxNowMs
====
